---- MODULE Spec2Model ----
(***************************************************************************)
(* Arrow puzzle: the logical grid (Grid.ts), the level generator and the   *)
(* removal / snapshot operations of GameManager (GameManager.ts).          *)
(*                                                                         *)
(* generateLevel is modelled step by step (one action per loop step), so   *)
(* that the intermediate states of Phase 1 (fill) and Phase 2 (peel) are   *)
(* states of the model.  Math.random is a nondeterministic choice.         *)
(***************************************************************************)
EXTENDS Integers, Sequences, FiniteSets, TLC

(***************************************************************************)
(* Bounds of the model.                                                    *)
(***************************************************************************)
\* stands for the fill-attempt cap of Phase 1 (5000 in GameManager.ts:40)
FillCap == 3
\* stands for maxRetries (10000 in GameManager.ts:31)
MaxRetries == 2

\* minWormCount arguments
MinWormCounts == { 0, 2 }

\* grid sizes the GameManager is constructed with (width, height)
GridSizes == { <<1, 10>>, <<3, 3>> }
\* targetDensity arguments, in percent (GameApp passes 0.95)
Densities == { 95 }

(***************************************************************************)
(* Grid.ts : Direction, Point, Worm                                        *)
(***************************************************************************)
UP == 0
DOWN == 1
LEFT == 2
RIGHT == 3
Direction == { UP, DOWN, LEFT, RIGHT }

EMPTY == -1

Point(px, py) == [x |-> px, y |-> py]

NewWormFirstId(id, color) ==
    [id |-> 0, cells |-> << >>, direction |-> UP, color |-> color]

\* new Worm(id, color): no cells, direction UP
NewWorm(id, color) ==
    [id |-> id, cells |-> << >>, direction |-> UP, color |-> color]

\* get head(): cells[0]
HeadOf(worm) == worm.cells[1]

Reverse(s) == [i \in 1..Len(s) |-> s[Len(s) + 1 - i]]

SeqToSet(s) == { s[i] : i \in 1..Len(s) }

(***************************************************************************)
(* Grid.ts : LogicalGrid.  A grid value is a record                        *)
(*   width, height : the dimensions                                        *)
(*   worms         : the Map id -> Worm as the sequence of its values in   *)
(*                   insertion order                                       *)
(*   grid          : the private occupancy array, grid[y][x]               *)
(***************************************************************************)
Cells(w, h) == { Point(px, py) : px \in 0..(w - 1), py \in 0..(h - 1) }

\* new LogicalGrid(width, height)
NewLogicalGrid(w, h) ==
    [width |-> w, height |-> h, worms |-> << >>,
     grid |-> [p \in Cells(w, h) |-> EMPTY]]

\* worms.keys()
WormIds(lg) == { lg.worms[i].id : i \in 1..Len(lg.worms) }

\* worms.has(id)
HasWorm(lg, id) == id \in WormIds(lg)

\* worms.get(id), for a present id
GetWorm(lg, id) ==
    lg.worms[CHOOSE i \in 1..Len(lg.worms) : lg.worms[i].id = id]

\* worms.set(id, worm): replaces in place when the key exists, appends otherwise
MapSet(ws, worm) ==
    IF \E i \in 1..Len(ws) : ws[i].id = worm.id
    THEN [i \in 1..Len(ws) |-> IF ws[i].id = worm.id THEN worm ELSE ws[i]]
    ELSE Append(ws, worm)

\* worms.delete(id)
MapDelete(ws, id) == SelectSeq(ws, LAMBDA w : w.id # id)

\* isValid(x, y)
IsValid(lg, px, py) ==
    px >= 0 /\ px < lg.width /\ py >= 0 /\ py < lg.height

\* isEmpty(x, y)
IsEmptyUnchecked(lg, px, py) ==
    IF px < 0 \/ px >= lg.width \/ py < 0 \/ py >= lg.height
    THEN TRUE
    ELSE lg.grid[Point(px, py)] = EMPTY

IsEmpty(lg, px, py) ==
    IsValid(lg, px, py) /\ lg.grid[Point(px, py)] = EMPTY

\* getWormIdAt(x, y)
GetWormIdAt(lg, px, py) ==
    IF px < 0 \/ px >= lg.width \/ py < 0 \/ py >= lg.height
    THEN EMPTY
    ELSE lg.grid[Point(px, py)]

\* addWorm(worm), for a worm whose cells are inside the grid
AddWorm(lg, worm) ==
    [lg EXCEPT
       !.worms = MapSet(lg.worms, worm),
       !.grid = [p \in DOMAIN lg.grid |->
                   IF p \in SeqToSet(worm.cells) THEN worm.id ELSE lg.grid[p]]]

\* removeWorm(id)
RemoveWormKeepsCells(lg, id) ==
    IF HasWorm(lg, id)
    THEN [lg EXCEPT !.worms = MapDelete(lg.worms, id)]
    ELSE lg

RemoveWormClearsAll(lg, id) ==
    IF HasWorm(lg, id)
    THEN [lg EXCEPT
            !.grid = [p \in DOMAIN lg.grid |-> EMPTY],
            !.worms = MapDelete(lg.worms, id)]
    ELSE lg

RemoveWorm(lg, id) ==
    IF HasWorm(lg, id)
    THEN [lg EXCEPT
            !.grid = [p \in DOMAIN lg.grid |->
                        IF p \in SeqToSet(GetWorm(lg, id).cells)
                        THEN EMPTY ELSE lg.grid[p]],
            !.worms = MapDelete(lg.worms, id)]
    ELSE lg

\* addWorm(worm) on any worm: this.grid[p.y] is undefined for a cell whose row
\* is outside the grid, and writing to it throws a TypeError.  The position in
\* cells of the first such cell, 0 if there is none.
FirstBadRow(lg, cells) ==
    LET bad == { i \in 1..Len(cells) : cells[i].y < 0 \/ cells[i].y >= lg.height }
    IN IF bad = {} THEN 0 ELSE CHOOSE i \in bad : \A j \in bad : i <= j

\* addWorm(worm) throws: worm.cells is undefined (a worm record without the
\* field cells), so that for (const p of worm.cells) throws, or a cell's row is
\* outside the grid
AddWormThrows(lg, worm) ==
    "cells" \notin DOMAIN worm \/ FirstBadRow(lg, worm.cells) # 0

\* the grid addWorm(worm) leaves when it throws: the worm is in the collection
\* and the cells before the throw are written
AddWormPartial(lg, worm) ==
    LET written == IF "cells" \in DOMAIN worm
                   THEN SubSeq(worm.cells, 1, FirstBadRow(lg, worm.cells) - 1)
                   ELSE << >>
    IN [lg EXCEPT
          !.worms = MapSet(lg.worms, worm),
          !.grid = [p \in DOMAIN lg.grid |->
                      IF p \in SeqToSet(written) THEN worm.id ELSE lg.grid[p]]]

(***************************************************************************)
(* GameManager.ts : rays                                                   *)
(***************************************************************************)
\* the switch (dir) of every ray loop
StepX(cx, dir) == CASE dir = LEFT -> cx - 1 [] dir = RIGHT -> cx + 1 [] OTHER -> cx
StepY(cy, dir) == CASE dir = UP -> cy - 1 [] dir = DOWN -> cy + 1 [] OTHER -> cy

\* isBlockedBySet(subject, potentialBlockers), from the cell (cx, cy)
RECURSIVE BlockedFrom(_, _, _, _, _, _)
BlockedFrom(lg, cx, cy, dir, subjectId, potentialBlockers) ==
    LET nx == StepX(cx, dir)
        ny == StepY(cy, dir)
        id == GetWormIdAt(lg, nx, ny)
    IN IF ~IsValid(lg, nx, ny) THEN FALSE
       ELSE IF id # EMPTY /\ id # subjectId /\ id \in potentialBlockers THEN TRUE
       ELSE BlockedFrom(lg, nx, ny, dir, subjectId, potentialBlockers)

IsBlockedBySetNever(lg, subject, potentialBlockers) == FALSE

IsBlockedBySetInverted(lg, subject, potentialBlockers) ==
    BlockedFrom(lg, HeadOf(subject).x, HeadOf(subject).y, subject.direction,
                subject.id, WormIds(lg) \ potentialBlockers)

IsBlockedBySet(lg, subject, potentialBlockers) ==
    BlockedFrom(lg, HeadOf(subject).x, HeadOf(subject).y, subject.direction,
                subject.id, potentialBlockers)

\* checkSelfBlock(cells, dir), from the cell (cx, cy)
RECURSIVE SelfBlockFrom(_, _, _, _, _)
SelfBlockFrom(lg, cells, cx, cy, dir) ==
    LET nx == StepX(cx, dir)
        ny == StepY(cy, dir)
    IN IF ~IsValid(lg, nx, ny) THEN FALSE
       ELSE IF Point(nx, ny) \in SeqToSet(cells) THEN TRUE
       ELSE SelfBlockFrom(lg, cells, nx, ny, dir)

CheckSelfBlockNever(lg, cells, dir) == FALSE

CheckSelfBlock(lg, cells, dir) ==
    SelfBlockFrom(lg, cells, cells[1].x, cells[1].y, dir)

\* getRaycastBlockers(startX, startY, dir, skipId): the list of blocker ids
RECURSIVE GetRaycastBlockers(_, _, _, _, _)
GetRaycastBlockersNoSkip(lg, startX, startY, dir, skipId) ==
    LET nx == StepX(startX, dir)
        ny == StepY(startY, dir)
        id == GetWormIdAt(lg, nx, ny)
    IN IF ~IsValid(lg, nx, ny) THEN << >>
       ELSE IF id # EMPTY THEN << id >>
       ELSE GetRaycastBlockers(lg, nx, ny, dir, skipId)

GetRaycastBlockers(lg, startX, startY, dir, skipId) ==
    LET nx == StepX(startX, dir)
        ny == StepY(startY, dir)
        id == GetWormIdAt(lg, nx, ny)
    IN IF ~IsValid(lg, nx, ny) THEN << >>
       ELSE IF id # EMPTY /\ id # skipId THEN << id >>
       ELSE GetRaycastBlockers(lg, nx, ny, dir, skipId)

\* the while (true) of getRaycastBlockers ends within steps turns: the scan
\* leaves the grid or meets a blocker.  A scan that moves leaves a grid of
\* width x height within width + height turns; one that is still inside
\* after that many has not moved (dir is none of the four cases of the
\* switch) and never ends.
RECURSIVE RaycastEnds(_, _, _, _, _, _)
RaycastEnds(lg, startX, startY, dir, skipId, steps) ==
    LET nx == StepX(startX, dir)
        ny == StepY(startY, dir)
        id == GetWormIdAt(lg, nx, ny)
    IN IF ~IsValid(lg, nx, ny) THEN TRUE
       ELSE IF id # EMPTY /\ id # skipId THEN TRUE
       ELSE steps > 0 /\ RaycastEnds(lg, nx, ny, dir, skipId, steps - 1)

(***************************************************************************)
(* State                                                                   *)
(***************************************************************************)
VARIABLES
    gridWidth, gridHeight,  \* GameManager.gridWidth, gridHeight
    logicGrid,              \* GameManager.logicGrid
    initialLevelJson,       \* GameManager.initialLevelJson
    pc,                     \* position inside generateLevel; "idle" outside it
    targetDensity,          \* argument of generateLevel, in percent
    minWormCount,           \* argument of generateLevel
    retry, nextId, fillAttempts,   \* locals of generateLevel
    remaining, assignments, \* locals of assignDirectionsTopologically
    scan,                   \* its loop position: [ix, orient, originalCells, foundFree]
    op, ret,                \* the last public call and the boolean it returned
    blockers,               \* the list the last getRaycastBlockers call returned
    calls,                  \* the number of generateLevel calls made so far
    repeated,               \* the last call was the call before it once more
    app,                    \* GameApp: wormViews, the container, the timer
    zoom                    \* ZoomController and the container it transforms

mgrVars == << gridWidth, gridHeight, logicGrid, initialLevelJson >>
argVars == << targetDensity, minWormCount >>
fillVars == << retry, nextId, fillAttempts >>
peelVars == << remaining, assignments, scan >>
callVars == << op, ret, blockers, calls, repeated >>
viewVars == << app, zoom >>
vars == << gridWidth, gridHeight, logicGrid, initialLevelJson, pc,
           targetDensity, minWormCount, retry, nextId, fillAttempts,
           remaining, assignments, scan, op, ret, blockers, calls,
           repeated, app, zoom >>

NoScan == [ix |-> 0, orient |-> 0, originalCells |-> << >>, foundFree |-> FALSE]
NoCall == [name |-> "none", args |-> << >>]

\* the empty string, initialLevelJson before any level exists
EmptyString == [kind |-> "empty"]

\* PALETTE: the colour is cosmetic, so one entry (0xF87171) stands for the 16
PALETTE == { 16281969 }

\* Math.floor(Math.random() * 4) + 5
MinLength == 5
MaxLength == 8

\* no view: the view of a report that is about no view
NoView == [level |-> 0]

\* GameApp as constructed: no views, no timer; the start overlay is shown.
\* wormViews lists the views in the order of the Map; container is the set
\* of children of gameContainer; moving holds the views whose timeline
\* (shake or fly-out) is running; level counts the calls of buildViews;
\* alertDue says that the timeout of the win branch is pending; origin says
\* where the level of the views is from (startLevel or importLevel); report
\* is what the last handler of GameApp did and the view it did it to.
NewGameApp ==
    [wormViews |-> << >>, container |-> {}, moving |-> {},
     timer |-> FALSE, overlay |-> TRUE, level |-> 0, alertDue |-> FALSE,
     origin |-> "none",
     report |-> [kind |-> "constructor", view |-> NoView]]

\* zoomLevel 1.0: zoomLevel is kept in tenths
ZoomOne == 10
\* maxZoom = 5.0 and zoomStep = 0.1, in tenths
maxZoom == 50
zoomStep == 1
\* dragThreshold, in pixels
dragThreshold == 5

\* ZoomController as constructed, with the container it transforms: x, y and
\* scale are container.x, container.y and container.scale (scale in tenths,
\* fitScale * zoomLevel), interactiveChildren is the container's flag, cursor
\* is canvas.style.cursor; ev is the last event handled.
NewZoomController ==
    [fitScale |-> 1, fitX |-> 0, fitY |-> 0, zoomLevel |-> ZoomOne,
     lastTouchDist |-> 0, isDragging |-> FALSE,
     dragStartX |-> 0, dragStartY |-> 0,
     containerStartX |-> 0, containerStartY |-> 0,
     pointerDownX |-> 0, pointerDownY |-> 0, dragCandidate |-> FALSE,
     x |-> 0, y |-> 0, scale |-> ZoomOne, interactiveChildren |-> TRUE,
     cursor |-> "", ev |-> "constructor"]

\* constructor(width, height), for a size of sizes, in a GameApp and with a
\* ZoomController that are as constructed
Constructed(sizes) ==
    /\ \E size \in sizes :
         /\ gridWidth = size[1]
         /\ gridHeight = size[2]
         /\ logicGrid = NewLogicalGrid(size[1], size[2])
    /\ initialLevelJson = EmptyString
    /\ pc = "idle"
    /\ targetDensity = 0 /\ minWormCount = 0
    /\ retry = 0 /\ nextId = 0 /\ fillAttempts = 0
    /\ remaining = << >> /\ assignments = << >> /\ scan = NoScan
    /\ op = NoCall /\ ret = FALSE /\ blockers = << >> /\ calls = 0
    /\ repeated = FALSE
    /\ app = NewGameApp
    /\ zoom = NewZoomController

Init == Constructed(GridSizes)

(***************************************************************************)
(* generateLevel, Phase 1                                                  *)
(***************************************************************************)
\* a call generateLevel(targetDensity, minWormCount)
GenerateLevel(densities, minWormCounts) ==
    /\ pc = "idle"
    /\ calls' = calls + 1
    /\ blockers' = << >>
    /\ repeated' = FALSE
    /\ \E d \in densities, n \in minWormCounts :
         /\ targetDensity' = d
         /\ minWormCount' = n
         /\ op' = [name |-> "generateLevel", args |-> << d, n >>]
    /\ retry' = 0
    /\ pc' = "retry"
    /\ UNCHANGED << mgrVars, nextId, fillAttempts, peelVars, ret >>

\* reset()
Reset(w, h) == NewLogicalGrid(w, h)

\* for (retry = 0; retry < maxRetries; ...): the loop test, reset(), and the
\* return false after the loop (the locals end with the call)
RetryLoopGivesUp ==
    /\ pc = "retry"
    /\ IF retry < 1
       THEN /\ logicGrid' = Reset(gridWidth, gridHeight)
            /\ nextId' = 0
            /\ fillAttempts' = 0
            /\ pc' = "fill"
            /\ UNCHANGED ret
            /\ UNCHANGED << argVars, retry >>
       ELSE /\ pc' = "idle"
            /\ ret' = FALSE
            /\ targetDensity' = 0 /\ minWormCount' = 0
            /\ retry' = 0 /\ nextId' = 0 /\ fillAttempts' = 0
            /\ UNCHANGED logicGrid
    /\ UNCHANGED << gridWidth, gridHeight, initialLevelJson, peelVars, op,
                    blockers, calls, repeated >>

RetryLoopKeepsGrid ==
    /\ pc = "retry"
    /\ IF retry < MaxRetries
       THEN /\ logicGrid' = IF retry = 0 THEN Reset(gridWidth, gridHeight)
                             ELSE logicGrid
            /\ nextId' = 0
            /\ fillAttempts' = 0
            /\ pc' = "fill"
            /\ UNCHANGED ret
            /\ UNCHANGED << argVars, retry >>
       ELSE /\ pc' = "idle"
            /\ ret' = FALSE
            /\ targetDensity' = 0 /\ minWormCount' = 0
            /\ retry' = 0 /\ nextId' = 0 /\ fillAttempts' = 0
            /\ UNCHANGED logicGrid
    /\ UNCHANGED << gridWidth, gridHeight, initialLevelJson, peelVars, op,
                    blockers, calls, repeated >>

RetryLoop ==
    /\ pc = "retry"
    /\ IF retry < MaxRetries
       THEN /\ logicGrid' = Reset(gridWidth, gridHeight)
            /\ nextId' = 0
            /\ fillAttempts' = 0
            /\ pc' = "fill"
            /\ UNCHANGED ret
            /\ UNCHANGED << argVars, retry >>
       ELSE /\ pc' = "idle"
            /\ ret' = FALSE
            /\ targetDensity' = 0 /\ minWormCount' = 0
            /\ retry' = 0 /\ nextId' = 0 /\ fillAttempts' = 0
            /\ UNCHANGED logicGrid
    /\ UNCHANGED << gridWidth, gridHeight, initialLevelJson, peelVars, op,
                    blockers, calls, repeated >>

EmptyCells(lg, w, h) == { p \in Cells(w, h) : IsEmpty(lg, p.x, p.y) }

\* occupied / totalCells >= targetDensity
DensityReachedAlways(occupied, totalCells, density) == TRUE

DensityReachedNever(occupied, totalCells, density) == FALSE

DensityReached(occupied, totalCells, density) ==
    occupied * 100 >= density * totalCells

\* the cells the walk may step to from its last cell: valid, empty and not
\* yet in the walk
GrowChoicesOverOccupied(lg, cs) ==
    LET last == cs[Len(cs)]
    IN { p \in { Point(StepX(last.x, d), StepY(last.y, d)) : d \in Direction } :
           /\ IsValid(lg, p.x, p.y)
           /\ p \notin SeqToSet(cs) }

GrowChoices(lg, cs) ==
    LET last == cs[Len(cs)]
    IN { p \in { Point(StepX(last.x, d), StepY(last.y, d)) : d \in Direction } :
           /\ IsValid(lg, p.x, p.y)
           /\ IsEmpty(lg, p.x, p.y)
           /\ p \notin SeqToSet(cs) }

\* for (i = 1; i < length; i++): every walk the loop can end with, from cs
RECURSIVE Walks(_, _, _)
Walks(lg, cs, len) ==
    IF Len(cs) >= len \/ GrowChoices(lg, cs) = {} THEN { cs }
    ELSE UNION { Walks(lg, Append(cs, p), len) : p \in GrowChoices(lg, cs) }

\* if (cells.length < 5) continue; worm.cells = cells; ... addWorm(worm)
PlaceAnyLength(lg, w, cs) ==
    AddWorm(lg, [w EXCEPT !.cells = cs, !.direction = UP])

Place(lg, w, cs) ==
    IF Len(cs) < MinLength THEN lg
    ELSE AddWorm(lg, [w EXCEPT !.cells = cs, !.direction = UP])

\* one turn of while (fillAttempts < 5000).  seeds = {} leaves Math.random
\* free: the walk is any walk the grow loop can end with; a set of walks as
\* seeds keeps of these the walks in the set.
FillTurn(seeds) ==
    /\ pc = "fill"
    /\ LET totalCells == gridWidth * gridHeight
           emptyCells == EmptyCells(logicGrid, gridWidth, gridHeight)
           occupied == totalCells - Cardinality(emptyCells)
       IN IF fillAttempts < FillCap
          THEN /\ fillAttempts' = fillAttempts + 1
               /\ IF \/ DensityReached(occupied, totalCells, targetDensity)
                     \/ emptyCells = {}
                  THEN /\ pc' = "peel"
                       /\ UNCHANGED << nextId, logicGrid >>
                  ELSE /\ \E start \in emptyCells, color \in PALETTE,
                             len \in MinLength..MaxLength :
                            \E cs \in IF seeds = {}
                                       THEN Walks(logicGrid, << start >>, len)
                                       ELSE Walks(logicGrid, << start >>, len)
                                              \cap seeds :
                               logicGrid' = Place(logicGrid,
                                                  NewWorm(nextId, color), cs)
                       /\ nextId' = nextId + 1
                       /\ pc' = "fill"
          ELSE /\ pc' = "peel"
               /\ UNCHANGED << fillAttempts, nextId, logicGrid >>
    /\ UNCHANGED << gridWidth, gridHeight, initialLevelJson, argVars, retry,
                    peelVars, callVars >>

FillLoop == FillTurn({})

(***************************************************************************)
(* generateLevel, Phase 2: assignDirectionsTopologically                   *)
(***************************************************************************)
\* the Map's keys in insertion order
KeySeq(ws) == [i \in 1..Len(ws) |-> ws[i].id]

\* the results of dirs.sort(() => Math.random() - 0.5)
DirOrders ==
    { s \in [1..4 -> Direction] : \A i, j \in 1..4 : s[i] = s[j] => i = j }

\* const remaining = new Set(worms.keys()); const assignments = []
PeelStart ==
    /\ pc = "peel"
    /\ remaining' = KeySeq(logicGrid.worms)
    /\ assignments' = << >>
    /\ scan' = NoScan
    /\ pc' = "round"
    /\ UNCHANGED << mgrVars, argVars, fillVars, callVars >>

\* while (remaining.size > 0): the loop test and the start of for (id of remaining)
Round ==
    /\ pc = "round"
    /\ IF Len(remaining) > 0
       THEN /\ scan' = [ix |-> 1, orient |-> 1,
                        originalCells |-> GetWorm(logicGrid, remaining[1]).cells,
                        foundFree |-> FALSE]
            /\ pc' = "orient"
       ELSE /\ scan' = NoScan
            /\ pc' = "apply"
    /\ UNCHANGED << mgrVars, argVars, fillVars, remaining, assignments, callVars >>

\* the two tests of a direction for the worm w, head at w.cells[0]:
\* !checkSelfBlock(worm.cells, dir) and, with worm.direction = dir,
\* !isBlockedBySet(worm, remaining)
PeelAcceptsUnblocked(lg, w, dir, potentialBlockers) ==
    ~CheckSelfBlock(lg, w.cells, dir)

PeelAcceptsAny(lg, w, dir, potentialBlockers) == TRUE

PeelAccepts(lg, w, dir, potentialBlockers) ==
    /\ ~CheckSelfBlock(lg, w.cells, dir)
    /\ ~IsBlockedBySet(lg, [w EXCEPT !.direction = dir], potentialBlockers)

\* for (const dir of dirs) from position i: [found, direction], direction
\* being worm.direction when the loop ends (a direction that is self-blocked
\* is skipped before worm.direction is set)
RECURSIVE DirLoop(_, _, _, _, _)
DirLoop(lg, w, dirs, i, potentialBlockers) ==
    IF i > Len(dirs) THEN [found |-> FALSE, direction |-> w.direction]
    ELSE IF PeelAccepts(lg, w, dirs[i], potentialBlockers)
         THEN [found |-> TRUE, direction |-> dirs[i]]
         ELSE DirLoop(lg,
                      IF CheckSelfBlock(lg, w.cells, dirs[i]) THEN w
                      ELSE [w EXCEPT !.direction = dirs[i]],
                      dirs, i + 1, potentialBlockers)

\* one turn of for (const orient of orientations) for the worm remaining[ix]
Orient ==
    /\ pc = "orient"
    /\ LET id == remaining[scan.ix]
           w == [GetWorm(logicGrid, id) EXCEPT
                   !.cells = IF scan.orient = 1 THEN scan.originalCells
                             ELSE Reverse(scan.originalCells)]
       IN \E dirs \in DirOrders :
            LET r == DirLoop(logicGrid, w, dirs, 1, SeqToSet(remaining))
            IN /\ logicGrid' = [logicGrid EXCEPT
                     !.worms = MapSet(logicGrid.worms,
                                      [w EXCEPT !.direction = r.direction])]
               /\ IF r.found
                  THEN /\ assignments' = Append(assignments,
                              [id |-> id, dir |-> r.direction,
                               reverse |-> (scan.orient = 2)])
                       /\ remaining' = SelectSeq(remaining, LAMBDA k : k # id)
                       /\ scan' = [scan EXCEPT !.foundFree = TRUE]
                       /\ pc' = "restore"
                  ELSE /\ UNCHANGED << assignments, remaining >>
                       /\ IF scan.orient = 1
                          THEN scan' = [scan EXCEPT !.orient = 2] /\ pc' = "orient"
                          ELSE scan' = scan /\ pc' = "restore"
    /\ UNCHANGED << gridWidth, gridHeight, initialLevelJson, argVars, fillVars,
                    callVars >>

\* the worm under test: its id is remaining[ix] unless it was just deleted
\* from remaining, and then it is the last assignment's
ScanId ==
    IF scan.foundFree THEN assignments[Len(assignments)].id
    ELSE remaining[scan.ix]

\* worm.cells = originalCells, for the worm id
RestoreCellsSkipped(lg, id, originalCells) == lg

RestoreCells(lg, id, originalCells) ==
    [lg EXCEPT !.worms = MapSet(lg.worms,
                                [GetWorm(lg, id) EXCEPT !.cells = originalCells])]

\* worm.cells = originalCells; then the next id, the next round, or return false
\* (and the retry++ of generateLevel)
Restore ==
    /\ pc = "restore"
    /\ LET lg == RestoreCells(logicGrid, ScanId, scan.originalCells)
       IN /\ logicGrid' = lg
          /\ IF scan.foundFree
             THEN /\ pc' = "round"
                  /\ scan' = NoScan
                  /\ UNCHANGED << retry, remaining, assignments >>
             ELSE IF scan.ix < Len(remaining)
             THEN /\ pc' = "orient"
                  /\ scan' = [ix |-> scan.ix + 1, orient |-> 1,
                              originalCells |->
                                  GetWorm(lg, remaining[scan.ix + 1]).cells,
                              foundFree |-> FALSE]
                  /\ UNCHANGED << retry, remaining, assignments >>
             ELSE /\ pc' = "retry"
                  /\ retry' = retry + 1
                  /\ scan' = NoScan
                  /\ remaining' = << >>
                  /\ assignments' = << >>
    /\ UNCHANGED << gridWidth, gridHeight, initialLevelJson, argVars, nextId,
                    fillAttempts, callVars >>

\* for (const { id, dir, reverse } of assignments) from position i
RECURSIVE ApplyFrom(_, _, _)
ApplyFrom(ws, as, i) ==
    IF i > Len(as) THEN ws
    ELSE LET w == ws[CHOOSE k \in 1..Len(ws) : ws[k].id = as[i].id]
             w2 == [w EXCEPT
                      !.cells = IF as[i].reverse THEN Reverse(w.cells) ELSE w.cells,
                      !.direction = as[i].dir]
         IN ApplyFrom(MapSet(ws, w2), as, i + 1)

ApplyAssignments(lg, as) ==
    [lg EXCEPT !.worms = ApplyFrom(lg.worms, as, 1)]

\* the application of all assignments and return true
Apply ==
    /\ pc = "apply"
    /\ logicGrid' = ApplyAssignments(logicGrid, assignments)
    /\ pc' = "assigned"
    /\ UNCHANGED << gridWidth, gridHeight, initialLevelJson, argVars, fillVars,
                    peelVars, callVars >>

\* serializeLevel(): JSON.stringify({ v: 1, w, h, worms })
WormToJson(w) == [id |-> w.id, cells |-> w.cells, dir |-> w.direction,
                  color |-> w.color]

SerializeLevel(w, h, lg) ==
    [kind |-> "object", v |-> 1, w |-> w, h |-> h,
     worms |-> [i \in 1..Len(lg.worms) |-> WormToJson(lg.worms[i])]]

\* minWormCount > 0 && worms.size < minWormCount
TooFewWormsNever(lg, n) == FALSE

TooFewWorms(lg, n) == n > 0 /\ Len(lg.worms) < n

\* the attempt is rejected for its worm count: continue
Reject ==
    /\ pc = "assigned"
    /\ TooFewWorms(logicGrid, minWormCount)
    /\ retry' = retry + 1
    /\ pc' = "retry"
    /\ remaining' = << >> /\ assignments' = << >> /\ scan' = NoScan
    /\ UNCHANGED << mgrVars, argVars, nextId, fillAttempts, callVars >>

\* initialLevelJson = serializeLevel(); return true (the locals end with the
\* call; assignments is kept as the record of the order of assignment)
Accept ==
    /\ pc = "assigned"
    /\ ~TooFewWorms(logicGrid, minWormCount)
    /\ initialLevelJson' = SerializeLevel(gridWidth, gridHeight, logicGrid)
    /\ ret' = TRUE
    /\ pc' = "idle"
    /\ remaining' = << >> /\ scan' = NoScan
    /\ targetDensity' = 0 /\ minWormCount' = 0
    /\ retry' = 0 /\ nextId' = 0 /\ fillAttempts' = 0
    /\ UNCHANGED << gridWidth, gridHeight, logicGrid, assignments, op,
                    blockers, calls, repeated >>

(***************************************************************************)
(* Play: tryRemoveWorm                                                     *)
(***************************************************************************)
\* the ids tryRemoveWorm is called with: every id a level can hold and one more
CallIds == 0..FillCap

CanRemoveIfPresent(lg, wormId) == HasWorm(lg, wormId)

\* worm present and blockers.length === 0
CanRemove(lg, wormId) ==
    /\ HasWorm(lg, wormId)
    /\ LET w == GetWorm(lg, wormId)
       IN GetRaycastBlockers(lg, HeadOf(w).x, HeadOf(w).y, w.direction, wormId)
            = << >>

\* tryRemoveWorm(wormId)
TryRemoveWormResnapshots(wormId) ==
    /\ pc = "idle"
    /\ op' = [name |-> "tryRemoveWorm", args |-> << wormId >>]
    /\ IF CanRemove(logicGrid, wormId)
       THEN /\ logicGrid' = RemoveWorm(logicGrid, wormId)
            /\ initialLevelJson' =
                   SerializeLevel(gridWidth, gridHeight, logicGrid')
            /\ ret' = TRUE
       ELSE /\ UNCHANGED << logicGrid, initialLevelJson >>
            /\ ret' = FALSE
    /\ blockers' = << >>
    /\ repeated' = FALSE
    /\ UNCHANGED << gridWidth, gridHeight, pc, argVars, fillVars, peelVars,
                    calls >>

\* the call getRaycastBlockers(worm.head.x, worm.head.y, worm.direction,
\* wormId) of tryRemoveWorm never returns
ScanNeverEnds(lg, wormId) ==
    /\ HasWorm(lg, wormId)
    /\ LET w == GetWorm(lg, wormId)
       IN ~RaycastEnds(lg, HeadOf(w).x, HeadOf(w).y, w.direction, wormId,
                       lg.width + lg.height)

\* (pc = "scan": the call is in the ray loop and stays there)
TryRemoveWorm(wormId) ==
    /\ pc = "idle"
    /\ op' = [name |-> "tryRemoveWorm", args |-> << wormId >>]
    /\ IF ScanNeverEnds(logicGrid, wormId)
       THEN /\ pc' = "scan"
            /\ UNCHANGED << logicGrid, ret >>
       ELSE /\ pc' = "idle"
            /\ IF CanRemove(logicGrid, wormId)
               THEN /\ logicGrid' = RemoveWorm(logicGrid, wormId)
                    /\ ret' = TRUE
               ELSE /\ UNCHANGED logicGrid
                    /\ ret' = FALSE
    /\ blockers' = << >>
    /\ repeated' = FALSE
    /\ UNCHANGED << gridWidth, gridHeight, initialLevelJson, argVars,
                    fillVars, peelVars, calls >>

\* a call getRaycastBlockers(startX, startY, dir, skipId)
RaycastCallRemovesBlocker(startX, startY, dir, skipId) ==
    /\ pc = "idle"
    /\ op' = [name |-> "getRaycastBlockers",
              args |-> << startX, startY, dir, skipId >>]
    /\ blockers' = GetRaycastBlockers(logicGrid, startX, startY, dir, skipId)
    /\ logicGrid' = IF blockers' = << >> THEN logicGrid
                    ELSE RemoveWorm(logicGrid, blockers'[1])
    /\ repeated' = FALSE
    /\ UNCHANGED << gridWidth, gridHeight, initialLevelJson, pc, argVars,
                    fillVars, peelVars, ret, calls >>

RaycastCall(startX, startY, dir, skipId) ==
    /\ pc = "idle"
    /\ op' = [name |-> "getRaycastBlockers",
              args |-> << startX, startY, dir, skipId >>]
    /\ blockers' = GetRaycastBlockers(logicGrid, startX, startY, dir, skipId)
    /\ repeated' = FALSE
    /\ UNCHANGED << mgrVars, pc, argVars, fillVars, peelVars, ret, calls >>

\* a direct call logicGrid.removeWorm(id) on the public field logicGrid
RemoveWormCall(id) ==
    /\ pc = "idle"
    /\ op' = [name |-> "removeWorm", args |-> << id >>]
    /\ logicGrid' = RemoveWorm(logicGrid, id)
    /\ blockers' = << >>
    /\ repeated' = FALSE
    /\ UNCHANGED << gridWidth, gridHeight, initialLevelJson, pc, argVars,
                    fillVars, peelVars, ret, calls >>

\* the call getRaycastBlockers has just returned from, made once more with the
\* same arguments and nothing called in between
RaycastAgain ==
    /\ pc = "idle"
    /\ op.name = "getRaycastBlockers"
    /\ ~repeated
    /\ blockers' = GetRaycastBlockers(logicGrid, op.args[1], op.args[2],
                                      op.args[3], op.args[4])
    /\ repeated' = TRUE
    /\ UNCHANGED << mgrVars, pc, argVars, fillVars, peelVars, op, ret, calls >>

(***************************************************************************)
(* Snapshots: exportLevel, importLevel                                     *)
(***************************************************************************)
\* exportLevel()
ExportLevel == initialLevelJson

\* JSON.parse(json) throws: the text is no JSON document
ParseFails(json) == json.kind # "object"

\* !data.f : the field is missing or holds 0
Falsy(data, f) == f \notin DOMAIN data \/ data[f] = 0

\* new Worm(wd.id, wd.color); worm.cells = wd.cells; worm.direction = wd.dir.
\* An entry without cells gives a worm whose cells are undefined.
WormFromJsonDefaultDir(wd) ==
    [NewWorm(wd.id, wd.color) EXCEPT !.cells = wd.cells]

WormFromJson(wd) ==
    IF "cells" \in DOMAIN wd
    THEN [NewWorm(wd.id, wd.color) EXCEPT !.cells = wd.cells, !.direction = wd.dir]
    ELSE [id |-> wd.id, direction |-> wd.dir, color |-> wd.color]

\* for (const wd of data.worms) from position i: the grid when the loop ends,
\* and whether it ended by an exception
RECURSIVE AddAllFrom(_, _, _)
AddAllFrom(lg, wds, i) ==
    IF i > Len(wds) THEN [lg |-> lg, threw |-> FALSE]
    ELSE LET worm == WormFromJson(wds[i])
         IN IF AddWormThrows(lg, worm)
            THEN [lg |-> AddWormPartial(lg, worm), threw |-> TRUE]
            ELSE AddAllFrom(AddWorm(lg, worm), wds, i + 1)

\* the end of importLevel once the fields w, h and worms were found: the
\* dimensions are the document's, the grid is the one the loop over the worms
\* left, r.lg; the snapshot is taken and true returned unless the loop threw
ImportEnd(json, snap, r) ==
    [gridWidth |-> json.w, gridHeight |-> json.h, logicGrid |-> r.lg,
     initialLevelJson |-> IF r.threw THEN snap ELSE json,
     ret |-> ~r.threw]

\* the body of importLevel(json) on a manager of dimensions w, h, grid lg and
\* snapshot snap: the fields when it returns, and the value it returns
ImportOutcomeResetsFirst(json, w, h, lg, snap) ==
    LET keep == [gridWidth |-> w, gridHeight |-> h, logicGrid |-> lg,
                 initialLevelJson |-> snap, ret |-> FALSE]
    IN IF ParseFails(json) THEN keep
       ELSE IF \/ "worms" \notin DOMAIN json
               \/ Falsy(json, "w")
               \/ Falsy(json, "h")
       THEN [keep EXCEPT !.logicGrid = Reset(w, h)]
       ELSE ImportEnd(json, snap, AddAllFrom(Reset(json.w, json.h), json.worms, 1))

ImportOutcome(json, w, h, lg, snap) ==
    LET keep == [gridWidth |-> w, gridHeight |-> h, logicGrid |-> lg,
                 initialLevelJson |-> snap, ret |-> FALSE]
    IN IF ParseFails(json) THEN keep
       ELSE IF \/ "worms" \notin DOMAIN json
               \/ Falsy(json, "w")
               \/ Falsy(json, "h")
       THEN keep
       ELSE ImportEnd(json, snap, AddAllFrom(Reset(json.w, json.h), json.worms, 1))

\* importLevel(json)
ImportLevel(json) ==
    /\ pc = "idle"
    /\ op' = [name |-> "importLevel", args |-> << >>]
    /\ blockers' = << >>
    /\ repeated' = FALSE
    /\ \E r \in { ImportOutcome(json, gridWidth, gridHeight, logicGrid,
                                  initialLevelJson) } :
          /\ gridWidth' = r.gridWidth
          /\ gridHeight' = r.gridHeight
          /\ logicGrid' = r.logicGrid
          /\ initialLevelJson' = r.initialLevelJson
          /\ ret' = r.ret
    /\ UNCHANGED << pc, argVars, fillVars, peelVars, calls >>

\* startLevel: the first call on a new GameManager is generateLevel
FirstLevel == calls = 0 /\ GenerateLevel(Densities, MinWormCounts)

\* play: any tryRemoveWorm call once a generateLevel call has returned
Play == calls > 0 /\ \E id \in CallIds : TryRemoveWorm(id)

\* the level is exported and imported again
Reimport == calls > 0 /\ ImportLevel(ExportLevel)

Next ==
    \/ FirstLevel /\ UNCHANGED viewVars
    \/ RetryLoop /\ UNCHANGED viewVars
    \/ FillLoop /\ UNCHANGED viewVars
    \/ PeelStart /\ UNCHANGED viewVars
    \/ Round /\ UNCHANGED viewVars
    \/ Orient /\ UNCHANGED viewVars
    \/ Restore /\ UNCHANGED viewVars
    \/ Apply /\ UNCHANGED viewVars
    \/ Reject /\ UNCHANGED viewVars
    \/ Accept /\ UNCHANGED viewVars
    \/ Play /\ UNCHANGED viewVars
    \/ Reimport /\ UNCHANGED viewVars

Spec == Init /\ [][Next]_vars

(***************************************************************************)
(* The obstruction query on every board of a small grid.  The boards are   *)
(* loaded with importLevel from well formed snapshots: every assignment of *)
(* the cells of the grid to no worm, worm 0 or worm 1.                     *)
(***************************************************************************)
RayGridSizes == { <<2, 2>> }

\* the ids of the worms of a loaded board
RayWormIds == { 0, 1 }

\* the ids a query skips: none (-1) and the ids of the boards
SkipIds == -1..1

\* the cells of a w x h grid, row by row
RowMajor(w, h) == [i \in 1..(w * h) |-> Point((i - 1) % w, (i - 1) \div w)]

\* the snapshot of the w x h board on which owner[p] is the worm of cell p
BoardJson(w, h, owner) ==
    LET cellsOf(id) == SelectSeq(RowMajor(w, h), LAMBDA p : owner[p] = id)
        ids == SelectSeq(<< 0, 1 >>, LAMBDA id : cellsOf(id) # << >>)
    IN [kind |-> "object", v |-> 1, w |-> w, h |-> h,
        worms |-> [i \in 1..Len(ids) |->
                     [id |-> ids[i], cells |-> cellsOf(ids[i]), dir |-> UP,
                      color |-> CHOOSE c \in PALETTE : TRUE]]]

RayPayloads ==
    UNION { { BoardJson(size[1], size[2], owner) :
                owner \in [Cells(size[1], size[2]) -> RayWormIds \cup { EMPTY }] } :
            size \in RayGridSizes }

InitRay == Constructed(RayGridSizes)

RayImport == \E json \in RayPayloads : ImportLevel(json)

Raycast ==
    \E startX \in -1..gridWidth, startY \in -1..gridHeight,
       dir \in Direction, skipId \in SkipIds :
         RaycastCall(startX, startY, dir, skipId)

NextRay ==
    \/ RayImport /\ UNCHANGED viewVars
    \/ Raycast /\ UNCHANGED viewVars

SpecRay == InitRay /\ [][NextRay]_vars

(***************************************************************************)
(* A manager of a 1 x 2 grid on which documents are imported: every level  *)
(* of the 1 x 2 grid (each cell empty, worm 0 or worm 1; each worm with    *)
(* every order of its cells and every direction), and malformed documents. *)
(* The imported level is played, queried as GameApp queries it, and worms  *)
(* are removed directly.                                                   *)
(***************************************************************************)
BoardSizes == { <<1, 2>> }

\* the ids tryRemoveWorm and removeWorm are called with: the ids of the
\* levels and one more
BoardIds == RayWormIds \cup { 2 }

\* the sequences that list the elements of S once each
Orders(S) ==
    { s \in [1..Cardinality(S) -> S] :
        \A i, j \in 1..Cardinality(S) : s[i] = s[j] => i = j }

\* the entries worm id can have in a document of the board owner: one for
\* every order of its cells and every direction
Entries(id, owner) ==
    LET mine == { p \in DOMAIN owner : owner[p] = id }
    IN { [id |-> id, cells |-> cs, dir |-> d, color |-> c] :
           cs \in Orders(mine), d \in Direction, c \in PALETTE }

\* the documents of the levels of the w x h grid
LevelJsons(w, h) ==
    UNION { { [kind |-> "object", v |-> 1, w |-> w, h |-> h,
               worms |-> SelectSeq(<< e0, e1 >>, LAMBDA e : e.cells # << >>)] :
                e0 \in Entries(0, owner), e1 \in Entries(1, owner) } :
            owner \in [Cells(w, h) -> RayWormIds \cup { EMPTY }] }

BoardPayloads ==
    UNION { LevelJsons(size[1], size[2]) : size \in BoardSizes }

\* a document without the field f
Without(json, f) == [g \in DOMAIN json \ { f } |-> json[g]]

\* a well formed document of a 2 x 1 grid: worm 0 on the left cell, worm 1 on
\* the right cell
TwoByOne ==
    [kind |-> "object", v |-> 1, w |-> 2, h |-> 1,
     worms |-> << [id |-> 0, cells |-> << Point(0, 0) >>, dir |-> LEFT,
                   color |-> CHOOSE c \in PALETTE : TRUE],
                  [id |-> 1, cells |-> << Point(1, 0) >>, dir |-> RIGHT,
                   color |-> CHOOSE c \in PALETTE : TRUE] >>]

\* TwoByOne with worm 1 replaced by the entry wd
WithSecondWorm(wd) == [TwoByOne EXCEPT !.worms = << TwoByOne.worms[1], wd >>]

\* documents importLevel returns false on: a text that is no JSON, TwoByOne
\* without w, h or worms or with w or h 0, with a worm that has no cells, and
\* with a worm whose second cell is on a row outside the grid
MalformedPayloads ==
    { [kind |-> "text"],
      Without(TwoByOne, "w"), Without(TwoByOne, "h"), Without(TwoByOne, "worms"),
      [TwoByOne EXCEPT !.w = 0], [TwoByOne EXCEPT !.h = 0],
      WithSecondWorm(Without(TwoByOne.worms[2], "cells")),
      WithSecondWorm([TwoByOne.worms[2] EXCEPT
                        !.cells = << Point(1, 0), Point(1, 1) >>]) }

\* no worm of the grid is one a failed import left without cells or with a
\* cell on a row outside the grid (tryRemoveWorm and removeWorm throw on such
\* a worm)
Playable(lg) ==
    \A i \in 1..Len(lg.worms) : ~AddWormThrows(lg, lg.worms[i])

InitBoard == Constructed(BoardSizes)

BoardImport == \E json \in BoardPayloads : ImportLevel(json)

BoardImportMalformed == \E json \in MalformedPayloads : ImportLevel(json)

BoardPlay == Playable(logicGrid) /\ \E id \in BoardIds : TryRemoveWorm(id)

BoardRemove == Playable(logicGrid) /\ \E id \in BoardIds : RemoveWormCall(id)

\* the query of handleWormClick and autoDebugStep: from the head of a worm of
\* the board, in its direction, skipping the worm itself
BoardQuery ==
    /\ Playable(logicGrid)
    /\ \E i \in 1..Len(logicGrid.worms) :
         LET w == logicGrid.worms[i]
         IN RaycastCall(HeadOf(w).x, HeadOf(w).y, w.direction, w.id)

BoardQueryAgain == RaycastAgain

NextBoard ==
    \/ BoardImport /\ UNCHANGED viewVars
    \/ BoardImportMalformed /\ UNCHANGED viewVars
    \/ BoardPlay /\ UNCHANGED viewVars
    \/ BoardRemove /\ UNCHANGED viewVars
    \/ BoardQuery /\ UNCHANGED viewVars
    \/ BoardQueryAgain /\ UNCHANGED viewVars

SpecBoard == InitBoard /\ [][NextBoard]_vars

(***************************************************************************)
(* generateLevel on a 4 x 4 grid, the smallest on which Phase 2 can fail,  *)
(* with the walks of Phase 1 kept to four 8-cell worms: Spiral1 on rows 0  *)
(* and 1 and Spiral2 on rows 2 and 3, both ends of which are inner cells,  *)
(* and Snake1 and Snake2 on the same rows with their ends on the border;   *)
(* to Hook1, Spiral1 without its last cell, whose head is an inner cell    *)
(* and whose tail is on the border; and to Stub, the one-cell walk from    *)
(* the cell Hook1 leaves empty, a candidate that is discarded.             *)
(* Spiral1 with Spiral2 is a layout Phase 2 fails on.                      *)
(***************************************************************************)
PeelSizes == { <<4, 4>> }

\* minWormCount arguments: none, and more worms than a layout has
PeelMinWormCounts == { 0, 3 }

Spiral1 == << Point(1, 1), Point(0, 1), Point(0, 0), Point(1, 0),
              Point(2, 0), Point(3, 0), Point(3, 1), Point(2, 1) >>
Spiral2 == << Point(1, 2), Point(0, 2), Point(0, 3), Point(1, 3),
              Point(2, 3), Point(3, 3), Point(3, 2), Point(2, 2) >>
Snake1 == << Point(0, 0), Point(1, 0), Point(2, 0), Point(3, 0),
             Point(3, 1), Point(2, 1), Point(1, 1), Point(0, 1) >>
Snake2 == << Point(0, 2), Point(1, 2), Point(2, 2), Point(3, 2),
             Point(3, 3), Point(2, 3), Point(1, 3), Point(0, 3) >>

Hook1 == << Point(1, 1), Point(0, 1), Point(0, 0), Point(1, 0),
            Point(2, 0), Point(3, 0), Point(3, 1) >>
Stub == << Point(2, 1) >>
\* a walk that runs into the dead end Hook1 leaves at (2, 1)
DeadEnd == << Point(1, 2), Point(2, 2), Point(2, 1) >>

SeedWalks == { Spiral1, Spiral2, Snake1, Snake2, Hook1, Stub, DeadEnd }

InitPeel == Constructed(PeelSizes)

\* targetDensity arguments, in percent: the default, and one that a single
\* 8-cell worm meets
PeelDensities == { 50, 95 }

PeelLevel == calls = 0 /\ GenerateLevel(PeelDensities, PeelMinWormCounts)

SeededFill == FillTurn(SeedWalks)

NextPeel ==
    \/ PeelLevel /\ UNCHANGED viewVars
    \/ RetryLoop /\ UNCHANGED viewVars
    \/ SeededFill /\ UNCHANGED viewVars
    \/ PeelStart /\ UNCHANGED viewVars
    \/ Round /\ UNCHANGED viewVars
    \/ Orient /\ UNCHANGED viewVars
    \/ Restore /\ UNCHANGED viewVars
    \/ Apply /\ UNCHANGED viewVars
    \/ Reject /\ UNCHANGED viewVars
    \/ Accept /\ UNCHANGED viewVars

SpecPeel == InitPeel /\ [][NextPeel]_vars

(***************************************************************************)
(* GameApp.startLevel: the start button.  With minWormCount > 0 it writes  *)
(* gridWidth and gridHeight, sized for that many worms, before it calls    *)
(* generateLevel, so the call starts with a live grid of other dimensions. *)
(* The manager is constructed at the least size, 4 x 2 standing for        *)
(* 25 x 35, which one worm outgrows; the button is live until a level has  *)
(* been generated.  The walks of Phase 1 are kept to SeedWalks.            *)
(***************************************************************************)
\* Math.max(25, ...) and Math.max(35, ...): the least width and height
MinWidth == 4
MinHeight == 2

\* the number of clicks on the start button
MaxStarts == 2

StartSizes == { << MinWidth, MinHeight >> }

\* minWorms: none, and one
StartMinWormCounts == { 0, 1 }

Max(a, b) == IF a >= b THEN a ELSE b

\* Math.ceil(a / b) for positive integers
CeilDiv(a, b) == (a + b - 1) \div b

\* Math.ceil(Math.sqrt(n / d))
CeilSqrt(n, d) == CHOOSE k \in 0..n : d * k * k >= n /\ (k = 0 \/ d * (k - 1) * (k - 1) < n)

\* estimatedCells = minWormCount * 7; gridArea = ceil(estimatedCells / 0.75);
\* h = max(35, ceil(sqrt(gridArea * 7 / 5))); w = max(25, ceil(gridArea / h))
AdaptedSize(n) ==
    LET estimatedCells == n * 7
        gridArea == CeilDiv(estimatedCells * 100, 75)
        h == Max(MinHeight, CeilSqrt(gridArea * 7, 5))
        w == Max(MinWidth, CeilDiv(gridArea, h))
    IN << w, h >>

InitStart == Constructed(StartSizes)

\* startLevel(minWormCount) up to the call of generateLevel(0.95, minWormCount)
StartCall(n) ==
    /\ pc = "idle"
    /\ calls < MaxStarts
    /\ IF n > 0
       THEN /\ gridWidth' = AdaptedSize(n)[1]
            /\ gridHeight' = AdaptedSize(n)[2]
       ELSE UNCHANGED << gridWidth, gridHeight >>
    /\ calls' = calls + 1
    /\ blockers' = << >>
    /\ repeated' = FALSE
    /\ \E d \in Densities :
         /\ targetDensity' = d
         /\ op' = [name |-> "generateLevel", args |-> << d, n >>]
    /\ minWormCount' = n
    /\ retry' = 0
    /\ pc' = "retry"
    /\ UNCHANGED << logicGrid, initialLevelJson, nextId, fillAttempts,
                    peelVars, ret >>

\* the start button is there until a level has been generated
StartLevel(n) ==
    /\ calls = 0 \/ ~ret
    /\ StartCall(n)

StartClick == \E n \in StartMinWormCounts : StartLevel(n)

\* (no attempt is rejected for its worm count: with the walks of SeedWalks
\* Phase 1 places a worm in every attempt, and minWormCount is at most 1)
NextStart ==
    \/ StartClick /\ UNCHANGED viewVars
    \/ RetryLoop /\ UNCHANGED viewVars
    \/ SeededFill /\ UNCHANGED viewVars
    \/ PeelStart /\ UNCHANGED viewVars
    \/ Round /\ UNCHANGED viewVars
    \/ Orient /\ UNCHANGED viewVars
    \/ Restore /\ UNCHANGED viewVars
    \/ Apply /\ UNCHANGED viewVars
    \/ Accept /\ UNCHANGED viewVars

SpecStart == InitStart /\ [][NextStart]_vars

(***************************************************************************)
(* Import of documents that have w, h and worms but are not levels: two    *)
(* worms on one cell, a cell in a column outside the grid, a dir that is   *)
(* no Direction.  importLevel validates none of this.                      *)
(***************************************************************************)
\* TwoByOne with worm 1 also on the cell of worm 0
Overlapping ==
    WithSecondWorm([TwoByOne.worms[2] EXCEPT
                      !.cells = << Point(1, 0), Point(0, 0) >>])

\* TwoByOne with worm 1 also on a cell right of the grid, on row 0
OutsideColumn ==
    WithSecondWorm([TwoByOne.worms[2] EXCEPT
                      !.cells = << Point(1, 0), Point(2, 0) >>])

\* TwoByOne with "dir": 4 for worm 1
BadDirection == WithSecondWorm([TwoByOne.worms[2] EXCEPT !.dir = 4])

DefectPayloads == { Overlapping, OutsideColumn, BadDirection }

InitDefect == Constructed(BoardSizes)

DefectImport ==
    \E json \in BoardPayloads \cup { TwoByOne } \cup DefectPayloads :
        ImportLevel(json)

DefectPlay == \E id \in BoardIds : TryRemoveWorm(id)

NextDefect ==
    \/ DefectImport /\ UNCHANGED viewVars
    \/ DefectPlay /\ UNCHANGED viewVars

SpecDefect == InitDefect /\ [][NextDefect]_vars

(***************************************************************************)
(* ZoomController: wheel and pinch zoom, drag panning.  Lengths are whole  *)
(* pixels and zoomLevel is in tenths.  The pointer is at one of two        *)
(* places; the wheel turns and the fingers pinch over the origin of the    *)
(* container, and a pinch changes the distance of the fingers by a factor  *)
(* of five, so that every quotient of zoomAt and handleTouchMove is exact. *)
(***************************************************************************)
\* the distance a drag may take the container from the origin
MaxPan == 6

\* clientX, clientY of the pointer events (the canvas is at the origin)
Clients == { << 0, 0 >>, << 6, 6 >> }

\* touchDist(t0, t1) of the touch events
TouchDists == { 0, 10, 50 }

\* the fitScale, fitX, fitY the resize handler of GameApp computes
Fits == { << 1, 0, 0 >>, << 2, 0, 0 >> }

Abs(a) == IF a < 0 THEN -a ELSE a

\* applyTransform()
ApplyTransform(z) ==
    [z EXCEPT !.scale = z.fitScale * z.zoomLevel, !.x = z.fitX, !.y = z.fitY]

\* setFitTransform(fitScale, fitX, fitY)
SetFitTransform(z, fitScale, fitX, fitY) ==
    ApplyTransform([z EXCEPT !.fitScale = fitScale, !.fitX = fitX,
                             !.fitY = fitY, !.zoomLevel = ZoomOne])

\* resetZoom()
ResetZoom(z) == ApplyTransform([z EXCEPT !.zoomLevel = ZoomOne])

\* Math.max(1.0, Math.min(this.maxZoom, v))
ClampZoomAbove(v) == IF v <= maxZoom THEN v ELSE maxZoom

ClampZoom(v) ==
    IF v <= ZoomOne THEN ZoomOne ELSE IF v <= maxZoom THEN v ELSE maxZoom

\* zoomAt(focalX, focalY, newZoom): world = (focal - container) / oldScale;
\* container = focal - world * newScale
ZoomAt(z, focalX, focalY, newZoom) ==
    LET oldScale == z.fitScale * z.zoomLevel
        newScale == z.fitScale * newZoom
    IN [z EXCEPT !.zoomLevel = newZoom,
                 !.scale = newScale,
                 !.x = focalX - ((focalX - z.x) * newScale) \div oldScale,
                 !.y = focalY - ((focalY - z.y) * newScale) \div oldScale]

\* handleWheel(e), mouseX and mouseY being e.clientX - rect.left and
\* e.clientY - rect.top
HandleWheel(z, deltaY, mouseX, mouseY) ==
    LET delta == IF deltaY > 0 THEN -zoomStep ELSE zoomStep
        newZoom == ClampZoom(z.zoomLevel + delta)
    IN IF newZoom = z.zoomLevel THEN z
       ELSE ZoomAt(z, mouseX, mouseY, newZoom)

\* handleTouchStart(e), n = e.touches.length and dist = touchDist(t0, t1)
HandleTouchStart(z, n, dist) ==
    IF n = 2
    THEN [z EXCEPT !.dragCandidate = FALSE, !.isDragging = FALSE,
                   !.lastTouchDist = dist]
    ELSE z

\* handleTouchMove(e), (midX, midY) being the focus: zoomLevel * ratio with
\* ratio = dist / lastTouchDist
HandleTouchMove(z, n, dist, midX, midY) ==
    IF n # 2 THEN z
    ELSE LET zoomed ==
                 IF z.lastTouchDist > 0
                 THEN ZoomAt(z, midX, midY,
                             ClampZoom((z.zoomLevel * dist)
                                          \div z.lastTouchDist))
                 ELSE z
         IN [zoomed EXCEPT !.lastTouchDist = dist]

\* handleTouchEnd(e)
HandleTouchEnd(z, n) ==
    IF n < 2 THEN [z EXCEPT !.lastTouchDist = 0] ELSE z

\* handlePointerDown(e)
HandlePointerDown(z, button, clientX, clientY) ==
    IF button # 0 THEN z
    ELSE IF z.zoomLevel <= ZoomOne THEN z
    ELSE [z EXCEPT !.pointerDownX = clientX, !.pointerDownY = clientY,
                   !.dragCandidate = TRUE, !.isDragging = FALSE]

\* handlePointerMove(e)
HandlePointerMove(z, clientX, clientY) ==
    IF ~z.dragCandidate THEN z
    ELSE LET dx == clientX - z.pointerDownX
             dy == clientY - z.pointerDownY
         IN IF ~z.isDragging
            THEN IF Abs(dx) > dragThreshold \/ Abs(dy) > dragThreshold
                 THEN [z EXCEPT !.isDragging = TRUE,
                                !.dragStartX = clientX,
                                !.dragStartY = clientY,
                                !.containerStartX = z.x,
                                !.containerStartY = z.y,
                                !.interactiveChildren = FALSE,
                                !.cursor = "grabbing"]
                 ELSE z
            ELSE [z EXCEPT !.x = z.containerStartX + (clientX - z.dragStartX),
                           !.y = z.containerStartY + (clientY - z.dragStartY)]

\* handlePointerUp(e), the handler of pointerup and of pointerleave
HandlePointerUp(z) ==
    LET restored == IF z.isDragging
                    THEN [z EXCEPT !.interactiveChildren = TRUE, !.cursor = ""]
                    ELSE z
    IN [restored EXCEPT !.dragCandidate = FALSE, !.isDragging = FALSE]

\* the event ev is handled and leaves the controller as z; nothing else
\* changes
Handled(ev, z) ==
    /\ pc = "idle"
    /\ zoom' = [z EXCEPT !.ev = ev]
    /\ Abs(z.x) <= MaxPan /\ Abs(z.y) <= MaxPan
    /\ UNCHANGED << mgrVars, pc, argVars, fillVars, peelVars, callVars, app >>

\* the events of the canvas (wheel; touchstart, touchmove, touchend;
\* pointerdown, pointermove; pointerup and pointerleave), the reset view
\* button (resetZoom) and the resize handler of GameApp (setFitTransform)
NextZoom ==
    \/ \E deltaY \in { -1, 1 } :
         Handled("wheel", HandleWheel(zoom, deltaY, zoom.x, zoom.y))
    \/ \E n \in 1..3, dist \in TouchDists :
         Handled("touchstart", HandleTouchStart(zoom, n, dist))
    \/ \E n \in 1..3, dist \in TouchDists :
         Handled("touchmove", HandleTouchMove(zoom, n, dist, zoom.x, zoom.y))
    \/ \E n \in 0..2 :
         Handled("touchend", HandleTouchEnd(zoom, n))
    \/ \E button \in { 0, 2 }, c \in Clients :
         Handled("pointerdown", HandlePointerDown(zoom, button, c[1], c[2]))
    \/ \E c \in Clients :
         Handled("pointermove", HandlePointerMove(zoom, c[1], c[2]))
    \/ Handled("pointerup", HandlePointerUp(zoom))
    \/ Handled("resetZoom", ResetZoom(zoom))
    \/ \E fit \in Fits :
         Handled("setFitTransform",
                 SetFitTransform(zoom, fit[1], fit[2], fit[3]))

SpecZoom == InitStart /\ [][NextZoom]_vars

(***************************************************************************)
(* GameApp: the views of the worms.  A level comes from the start button   *)
(* (startLevel, on the grids of SpecStart with the walks of SeedWalks) or  *)
(* from importLevel (levels of a 2 x 1 grid); a click on a view and the    *)
(* debug button call tryRemoveWorm; the timelines of playShake and         *)
(* playFlyOut complete later, each as a step of its own, in any order and  *)
(* also after the next level has been built.                               *)
(***************************************************************************)
\* the number of levels that are built
MaxLevels == 2

\* TwoByOne with worm 1 heading LEFT (blocked by worm 0), TwoByOne with the
\* worms heading for each other, and a text that is no JSON
AppPayloads ==
    { WithSecondWorm([TwoByOne.worms[2] EXCEPT !.dir = LEFT]),
      [TwoByOne EXCEPT !.worms =
          << [TwoByOne.worms[1] EXCEPT !.dir = RIGHT],
             [TwoByOne.worms[2] EXCEPT !.dir = LEFT] >>],
      [kind |-> "text"] }

\* buildViews(): a new view for every worm of lg, in the order of worms
BuildViews(a, lg) ==
    LET views == [i \in 1..Len(lg.worms) |->
                     [level |-> a.level + 1, worm |-> lg.worms[i]]]
    IN [a EXCEPT !.container = SeqToSet(views),
                 !.wormViews = views,
                 !.level = a.level + 1]

\* isMoving of the view v (a view whose fly-out has completed keeps
\* isMoving = true; it has left the container and wormViews holds no entry
\* of its id, so nothing reads it again, and moving drops it)
IsMoving(a, v) == \E m \in a.moving : m.view = v

\* view.playShake()
PlayShake(a, v) ==
    IF IsMoving(a, v) THEN a
    ELSE [a EXCEPT !.moving = @ \cup { [view |-> v, kind |-> "shake"] }]

\* removeWormView(view): view.playFlyOut(callback)
RemoveWormView(a, v) ==
    IF IsMoving(a, v) THEN a
    ELSE [a EXCEPT !.moving = @ \cup { [view |-> v, kind |-> "fly"] }]

\* the callback of removeWormView: removeChild(view);
\* wormViews.delete(view.worm.id); if (wormViews.size === 0) stopTimer() and
\* the timeout of the alert
FlyOutComplete(a, v) ==
    LET left == SelectSeq(a.wormViews, LAMBDA u : u.worm.id # v.worm.id)
        won == left = << >>
    IN [a EXCEPT !.moving = @ \ { [view |-> v, kind |-> "fly"] },
                 !.container = @ \ { v },
                 !.wormViews = left,
                 !.timer = IF won THEN FALSE ELSE @,
                 !.alertDue = IF won THEN TRUE ELSE @,
                 !.report = [kind |-> IF won THEN "win" ELSE "flown",
                             view |-> v]]

\* buildViews(); startTimer(); the overlay is hidden; the resize event
Shown(a, lg, origin) ==
    [BuildViews(a, lg) EXCEPT !.timer = TRUE, !.overlay = FALSE,
                              !.origin = origin,
                              !.report = [kind |-> "built", view |-> NoView]]

\* the resize handler, in a window that the grid fits at scale 1
Resized(z) == [SetFitTransform(z, 1, 0, 0) EXCEPT !.ev = "setFitTransform"]

\* tryRemoveWorm(w.id) has returned false; getRaycastBlockers(w.head.x,
\* w.head.y, w.direction, w.id) for the log
BlockedQuery(w) ==
    /\ pc = "idle"
    /\ op' = [name |-> "getRaycastBlockers",
              args |-> << HeadOf(w).x, HeadOf(w).y, w.direction, w.id >>]
    /\ ret' = FALSE
    /\ blockers' = GetRaycastBlockers(logicGrid, HeadOf(w).x, HeadOf(w).y,
                                      w.direction, w.id)
    /\ repeated' = FALSE
    /\ UNCHANGED << mgrVars, pc, argVars, fillVars, peelVars, calls >>

\* onStartClick: startLevel(minWorms) up to the call of generateLevel (the
\* first level is generated or imported, the later ones are imported)
AppStart ==
    /\ app.overlay
    /\ app.level = 0
    /\ \E n \in StartMinWormCounts : StartCall(n)
    /\ app' = [app EXCEPT !.container = {}, !.wormViews = << >>,
                          !.origin = "none",
                          !.report = [kind |-> "start", view |-> NoView]]
    /\ UNCHANGED zoom

\* generateLevel has returned true: the rest of startLevel and onStartClick
AppBuilt ==
    /\ Accept
    /\ app' = Shown(app, logicGrid, "generated")
    /\ zoom' = Resized(zoom)

\* importLevel: reader.onload
AppImport ==
    /\ app.level < MaxLevels
    /\ \E json \in AppPayloads : ImportLevel(json)
    /\ IF ret'
       THEN /\ app' = Shown(app, logicGrid', "imported")
            /\ zoom' = Resized(zoom)
       ELSE /\ app' = [app EXCEPT
                         !.report = [kind |-> "rejected", view |-> NoView]]
            /\ UNCHANGED zoom

\* handleWormClick(view), for a view of the container
Click ==
    /\ zoom.interactiveChildren
    /\ \E v \in app.container :
         IF CanRemove(logicGrid, v.worm.id)
         THEN /\ TryRemoveWorm(v.worm.id)
              /\ app' = [RemoveWormView(app, v) EXCEPT
                           !.report = [kind |-> "removed", view |-> v]]
         ELSE /\ BlockedQuery(v.worm)
              /\ app' = [PlayShake(app, v) EXCEPT
                           !.report = [kind |-> "blocked", view |-> v]]
    /\ UNCHANGED zoom

\* autoDebugStep(): the first view of wormViews whose worm tryRemoveWorm
\* removes; if there is none, the deadlock branch
AutoDebugStep ==
    /\ pc = "idle"
    /\ LET free == { i \in 1..Len(app.wormViews) :
                       CanRemove(logicGrid, app.wormViews[i].worm.id) }
       IN IF free # {}
          THEN LET v == app.wormViews[CHOOSE i \in free :
                                         \A j \in free : i <= j]
               IN /\ TryRemoveWorm(v.worm.id)
                  /\ app' = [RemoveWormView(app, v) EXCEPT
                               !.report = [kind |-> "removed", view |-> v]]
          ELSE /\ IF app.wormViews = << >>
                  THEN UNCHANGED << mgrVars, pc, argVars, fillVars, peelVars,
                                    callVars >>
                  ELSE BlockedQuery(app.wormViews[Len(app.wormViews)].worm)
               /\ app' = [app EXCEPT
                            !.report = [kind |-> "deadlock", view |-> NoView]]
    /\ UNCHANGED zoom

\* the timeline of playShake completes: isMoving = false
ShakeComplete ==
    /\ pc = "idle"
    /\ \E m \in app.moving :
         /\ m.kind = "shake"
         /\ app' = [app EXCEPT !.moving = @ \ { m },
                               !.report = [kind |-> "still", view |-> m.view]]
    /\ UNCHANGED << mgrVars, pc, argVars, fillVars, peelVars, callVars, zoom >>

\* the timeline of playFlyOut completes: the callback of removeWormView
FlyOutDone ==
    /\ pc = "idle"
    /\ \E m \in app.moving :
         /\ m.kind = "fly"
         /\ app' = FlyOutComplete(app, m.view)
    /\ UNCHANGED << mgrVars, pc, argVars, fillVars, peelVars, callVars, zoom >>

\* the timeout of the win branch: the alert, then the overlay is shown
WinAlert ==
    /\ pc = "idle"
    /\ app.alertDue
    /\ app' = [app EXCEPT !.alertDue = FALSE, !.overlay = TRUE,
                          !.report = [kind |-> "alert", view |-> NoView]]
    /\ UNCHANGED << mgrVars, pc, argVars, fillVars, peelVars, callVars, zoom >>

\* (no attempt is rejected for its worm count, as in NextStart)
NextApp ==
    \/ AppStart
    \/ RetryLoop /\ UNCHANGED viewVars
    \/ SeededFill /\ UNCHANGED viewVars
    \/ PeelStart /\ UNCHANGED viewVars
    \/ Round /\ UNCHANGED viewVars
    \/ Orient /\ UNCHANGED viewVars
    \/ Restore /\ UNCHANGED viewVars
    \/ Apply /\ UNCHANGED viewVars
    \/ AppBuilt
    \/ AppImport
    \/ Click
    \/ AutoDebugStep
    \/ ShakeComplete
    \/ FlyOutDone
    \/ WinAlert

SpecApp == InitStart /\ [][NextApp]_vars

(***************************************************************************)
(* Properties                                                              *)
(***************************************************************************)
\* generateLevel has just returned the value r
Returned(r) == pc = "idle" /\ op.name = "generateLevel" /\ ret = r

\* the cells of the grid of lg
GridCells(lg) == Cells(lg.width, lg.height)

\* the cells of the grid strictly beyond p in direction dir
RayCells(lg, p, dir) ==
    { q \in GridCells(lg) :
        \/ dir = UP /\ q.x = p.x /\ q.y < p.y
        \/ dir = DOWN /\ q.x = p.x /\ q.y > p.y
        \/ dir = LEFT /\ q.y = p.y /\ q.x < p.x
        \/ dir = RIGHT /\ q.y = p.y /\ q.x > p.x }

\* no worm and no occupied cell
Cleared(lg) == lg.worms = << >> /\ \A p \in DOMAIN lg.grid : lg.grid[p] = EMPTY

\* some order of tryRemoveWorm calls, each successful, clears the grid
RECURSIVE Solvable(_)
Solvable(lg) ==
    \/ Cleared(lg)
    \/ \E id \in WormIds(lg) : CanRemove(lg, id) /\ Solvable(RemoveWorm(lg, id))

\* tryRemoveWorm on ids[i], ids[i + 1], ... succeeds at every call and
\* clears the grid
RECURSIVE OrderClears(_, _, _)
OrderClears(lg, ids, i) ==
    IF i > Len(ids) THEN Cleared(lg)
    ELSE CanRemove(lg, ids[i]) /\ OrderClears(RemoveWorm(lg, ids[i]), ids, i + 1)

\* tryRemoveWorm on ids[i], ids[i + 1], ... succeeds at every call
RECURSIVE OrderSucceeds(_, _, _)
OrderSucceeds(lg, ids, i) ==
    IF i > Len(ids) THEN TRUE
    ELSE CanRemove(lg, ids[i]) /\ OrderSucceeds(RemoveWorm(lg, ids[i]), ids, i + 1)

\* the ids in the order in which Phase 2 assigned them
AssignmentOrder == [i \in 1..Len(assignments) |-> assignments[i].id]

\* C1: every level generateLevel returns true on can be cleared: some order
\* of its worm ids makes every tryRemoveWorm call succeed and leaves no worm
\* and no occupied cell.
C1_Solvable == Returned(TRUE) => Solvable(logicGrid)

\* a generated level of two worms one of which cannot leave first
C1_Witness ==
    /\ Returned(TRUE)
    /\ Len(logicGrid.worms) = 2
    /\ \E id \in WormIds(logicGrid) : ~CanRemove(logicGrid, id)
    /\ Solvable(logicGrid)

C3_OccupancyConsistent ==
    LET lg == logicGrid
        ws == lg.worms
    IN /\ lg.width = gridWidth /\ lg.height = gridHeight
       /\ DOMAIN lg.grid = GridCells(lg)
       /\ \A i, j \in 1..Len(ws) : ws[i].id = ws[j].id => i = j
       /\ \A p \in GridCells(lg) :
            /\ lg.grid[p] = EMPTY \/ lg.grid[p] \in WormIds(lg)
            /\ \A i \in 1..Len(ws) :
                 lg.grid[p] = ws[i].id <=> p \in SeqToSet(ws[i].cells)
       /\ \A i \in 1..Len(ws) : SeqToSet(ws[i].cells) \subseteq GridCells(lg)
       /\ \A i, j \in 1..Len(ws) :
            i # j => SeqToSet(ws[i].cells) \cap SeqToSet(ws[j].cells) = {}

\* Phase 2 has tested the reversed orientation of a worm, whose cells are
\* still in the reversed order
C3_Witness ==
    /\ pc = "restore"
    /\ scan.orient = 2
    /\ Len(logicGrid.worms) >= 1
    /\ GetWorm(logicGrid, ScanId).cells = Reverse(scan.originalCells)
    /\ GetWorm(logicGrid, ScanId).cells # scan.originalCells

\* C4: on a generated level, the ray of every worm, from cells[0] in its
\* direction and without the head cell, holds no cell of the worm itself.
C4_NoSelfBlock ==
    Returned(TRUE) =>
        \A i \in 1..Len(logicGrid.worms) :
            LET w == logicGrid.worms[i]
            IN RayCells(logicGrid, w.cells[1], w.direction)
                 \cap SeqToSet(w.cells) = {}

\* a generated level with a worm whose head and tail Phase 2 swapped, every
\* direction from its Phase 1 head running into its own body
C4_Witness ==
    /\ Returned(TRUE)
    /\ \E i \in 1..Len(assignments) :
         /\ assignments[i].reverse
         /\ LET w == GetWorm(logicGrid, assignments[i].id)
            IN \A d \in Direction :
                 RayCells(logicGrid, w.cells[Len(w.cells)], d)
                   \cap SeqToSet(w.cells) # {}

\* C5: generateLevel(d, N) with N > 0 returns true only on a grid of at least
\* N worms, and a fully assigned layout of fewer worms is discarded: the
\* retry counter advances and the snapshot is not taken.
C5_MinimumCount ==
    /\ [](Returned(TRUE) /\ op.args[2] > 0 => Len(logicGrid.worms) >= op.args[2])
    /\ [][pc = "assigned" /\ minWormCount > 0
            /\ Len(logicGrid.worms) < minWormCount
          => /\ pc' = "retry"
             /\ retry' = retry + 1
             /\ initialLevelJson' = initialLevelJson]_vars

\* generateLevel(0.95, 2) has returned true on a grid of two worms
C5_Witness ==
    /\ Returned(TRUE)
    /\ op.args[2] = 2
    /\ Len(logicGrid.worms) = 2

\* the number of occupied cells
Occupied(lg) == Cardinality({ p \in GridCells(lg) : lg.grid[p] # EMPTY })

\* C6 as stated: when generateLevel(targetDensity, 0) returns true, the level
\* covers at least targetDensity * width * height cells minus 4.
C6_DensityFloor ==
    Returned(TRUE) /\ op.args[2] = 0 =>
        Occupied(logicGrid) * 100
          >= op.args[1] * gridWidth * gridHeight - 4 * 100

\* C6 amended: when generateLevel(targetDensity, 0) returns true, the level
\* covers at least targetDensity * width * height cells unless Phase 1 of the
\* accepted attempt used up its cap of placement attempts.
C6_DensityUnlessCap ==
    [][pc = "assigned" /\ pc' = "idle" /\ minWormCount = 0
       => \/ Occupied(logicGrid') * 100 >= targetDensity * gridWidth * gridHeight
          \/ fillAttempts = FillCap]_vars

\* generateLevel(0.95, 0) has returned true on a level that covers less than
\* the target: less than 95 percent of the cells
C6_Witness ==
    /\ Returned(TRUE)
    /\ op.args[2] = 0
    /\ Len(logicGrid.worms) >= 1
    /\ Occupied(logicGrid) * 100 < op.args[1] * gridWidth * gridHeight

\* the same dimensions, the same worm ids, for every id the same cells,
\* direction and colour, and the same occupancy cell for cell
SameLevel(lg1, lg2) ==
    /\ lg1.width = lg2.width /\ lg1.height = lg2.height
    /\ WormIds(lg1) = WormIds(lg2)
    /\ Len(lg1.worms) = Len(lg2.worms)
    /\ \A id \in WormIds(lg1) :
         /\ GetWorm(lg1, id).cells = GetWorm(lg2, id).cells
         /\ GetWorm(lg1, id).direction = GetWorm(lg2, id).direction
         /\ GetWorm(lg1, id).color = GetWorm(lg2, id).color
    /\ \A p \in GridCells(lg1) : lg1.grid[p] = lg2.grid[p]

\* C7: importLevel(exportLevel()) right after generateLevel returned true
\* returns true and yields the dimensions, worm ids, cells (head first),
\* directions, colours and occupancy of the generated level.
C7_RoundTrip ==
    [][Returned(TRUE) /\ ImportLevel(ExportLevel)
       => /\ ret'
          /\ gridWidth' = gridWidth /\ gridHeight' = gridHeight
          /\ SameLevel(logicGrid, logicGrid')
          /\ ExportLevel' = ExportLevel]_vars

\* a level of two worms, one of them pointing in a direction other than the
\* placeholder UP, has been exported and imported again
C7_Witness ==
    /\ pc = "idle"
    /\ op.name = "importLevel"
    /\ ret
    /\ Len(logicGrid.worms) = 2
    /\ \E i \in 1..Len(logicGrid.worms) : logicGrid.worms[i].direction # UP

\* worm id is present and every cell of its ray, from the head in its
\* direction, is empty or its own
RayClear(lg, id) ==
    /\ HasWorm(lg, id)
    /\ \A q \in RayCells(lg, GetWorm(lg, id).cells[1], GetWorm(lg, id).direction) :
         lg.grid[q] \in { EMPTY, id }

\* worm id is present and a cell of its ray belongs to another worm
RayObstructed(lg, id) ==
    /\ HasWorm(lg, id)
    /\ \E q \in RayCells(lg, GetWorm(lg, id).cells[1], GetWorm(lg, id).direction) :
         lg.grid[q] \notin { EMPTY, id }

\* lg2 is lg1 without worm id: its cells empty, every other cell and worm as
\* it was
Removed(lg1, lg2, id) ==
    /\ HasWorm(lg1, id)
    /\ ~HasWorm(lg2, id)
    /\ lg2.width = lg1.width /\ lg2.height = lg1.height
    /\ WormIds(lg2) = WormIds(lg1) \ { id }
    /\ Len(lg2.worms) = Len(lg1.worms) - 1
    /\ \A k \in WormIds(lg2) : GetWorm(lg2, k) = GetWorm(lg1, k)
    /\ DOMAIN lg2.grid = DOMAIN lg1.grid
    /\ \A p \in DOMAIN lg1.grid :
         lg2.grid[p] = IF p \in SeqToSet(GetWorm(lg1, id).cells)
                       THEN EMPTY ELSE lg1.grid[p]

\* C8: tryRemoveWorm(id) returns true exactly when the worm is present and
\* its ray is clear of other worms, and then the worm is gone, its cells are
\* empty and every other worm and cell is unchanged.
C8_TryRemoveWorm ==
    [][\A id \in CallIds :
         TryRemoveWorm(id) =>
            /\ ret' <=> RayClear(logicGrid, id)
            /\ ret' => Removed(logicGrid, logicGrid', id)]_vars

\* tryRemoveWorm has removed one worm of a level of two
C8_Witness ==
    /\ pc = "idle"
    /\ op.name = "tryRemoveWorm"
    /\ ret
    /\ Len(logicGrid.worms) = 1
    /\ Len(initialLevelJson.worms) = 2
    /\ ~HasWorm(logicGrid, op.args[1])

\* C9: tryRemoveWorm(id) on an absent id or on a worm whose ray another worm
\* obstructs returns false and leaves the worms, the occupancy, the
\* dimensions and the exported snapshot unchanged.
C9_FailedRemoveChangesNothing ==
    [][\A id \in CallIds :
         TryRemoveWorm(id) /\ (~HasWorm(logicGrid, id) \/ RayObstructed(logicGrid, id))
            => /\ ret' = FALSE
               /\ logicGrid' = logicGrid
               /\ gridWidth' = gridWidth /\ gridHeight' = gridHeight
               /\ ExportLevel' = ExportLevel]_vars

\* tryRemoveWorm has failed on a worm that is on the board, obstructed
C9_Witness ==
    /\ pc = "idle"
    /\ op.name = "tryRemoveWorm"
    /\ ret = FALSE
    /\ RayObstructed(logicGrid, op.args[1])

\* the k-th cell of the ray from (px, py) in direction dir
RayPoint(px, py, dir, k) ==
    CASE dir = UP -> Point(px, py - k)
      [] dir = DOWN -> Point(px, py + k)
      [] dir = LEFT -> Point(px - k, py)
      [] dir = RIGHT -> Point(px + k, py)

\* the list of 0 or 1 ids: the owner of the first cell of the ray that is
\* occupied by a worm other than skipId, met before the ray leaves the grid
FirstBlocker(lg, px, py, dir, skipId) ==
    LET inside(k) == \A j \in 1..k : RayPoint(px, py, dir, j) \in GridCells(lg)
        hits == { k \in 1..(lg.width + lg.height + 2) :
                    /\ inside(k)
                    /\ lg.grid[RayPoint(px, py, dir, k)] \notin { EMPTY, skipId } }
    IN IF hits = {} THEN << >>
       ELSE << lg.grid[RayPoint(px, py, dir,
                                CHOOSE k \in hits : \A j \in hits : k <= j)] >>

\* C10: getRaycastBlockers(x, y, dir, skipId) returns the list of 0 or 1 ids
\* holding the owner of the first occupied cell not owned by skipId on the
\* ray (start cell excluded), or the empty list if the ray leaves the grid
\* first; cells of skipId do not stop the scan.
C10_FirstBlocker ==
    op.name = "getRaycastBlockers" =>
        /\ Len(blockers) <= 1
        /\ blockers = FirstBlocker(logicGrid, op.args[1], op.args[2],
                                   op.args[3], op.args[4])

\* a query whose ray crosses a cell of the skipped worm 0 and stops at worm 1
C10_Witness ==
    /\ op.name = "getRaycastBlockers"
    /\ op.args[4] = 0
    /\ blockers = << 1 >>
    /\ RayPoint(op.args[1], op.args[2], op.args[3], 1) \in GridCells(logicGrid)
    /\ logicGrid.grid[RayPoint(op.args[1], op.args[2], op.args[3], 1)] = 0

Unreadable(json) ==
    json.kind # "object" \/ ~({ "w", "h", "worms" } \subseteq DOMAIN json)

\* C12: importLevel of a text that cannot be parsed or of a document without
\* w, h or worms returns false and leaves gridWidth, gridHeight, the live grid
\* with its worms and the snapshot unchanged.
C12_UnreadableImportChangesNothing ==
    [][\A json \in MalformedPayloads :
         ImportLevel(json) /\ Unreadable(json)
            => /\ ret' = FALSE
               /\ gridWidth' = gridWidth /\ gridHeight' = gridHeight
               /\ logicGrid' = logicGrid
               /\ initialLevelJson' = initialLevelJson]_vars

\* an import has returned false on a manager that holds an imported level of
\* two worms of the 1 x 2 grid, which is still there with its snapshot
C12_Witness ==
    /\ op.name = "importLevel"
    /\ ret = FALSE
    /\ gridWidth = 1 /\ gridHeight = 2
    /\ Len(logicGrid.worms) = 2
    /\ initialLevelJson = SerializeLevel(gridWidth, gridHeight, logicGrid)

\* C13 as stated: whenever importLevel returns false, also on a document with
\* w, h and worms of which a worm has no cells or a cell on a row outside the
\* grid, gridWidth, gridHeight and the live grid's worms and occupancy are
\* what they were before the call.
C13_FailedImportChangesNothing ==
    [][\A json \in MalformedPayloads :
         ImportLevel(json) /\ ret' = FALSE
            => /\ gridWidth' = gridWidth /\ gridHeight' = gridHeight
               /\ logicGrid' = logicGrid]_vars

\* an import has returned false and left the dimensions of the document and a
\* grid that holds the worms added before the exception
C13_Witness ==
    /\ op.name = "importLevel"
    /\ ret = FALSE
    /\ gridWidth = 2 /\ gridHeight = 1
    /\ Len(logicGrid.worms) = 2
    /\ initialLevelJson.kind = "object"
    /\ initialLevelJson.w = 1

\* the ids of the worms of a document
JsonIds(json) == { json.worms[i].id : i \in 1..Len(json.worms) }

\* the snapshot is the level generateLevel accepted: its dimensions, one entry
\* for every worm Phase 2 assigned, with the direction assigned; every worm
\* still on the board is in it as it is on the board
FullInitialLevel ==
    /\ initialLevelJson.w = gridWidth /\ initialLevelJson.h = gridHeight
    /\ Len(initialLevelJson.worms) = Len(assignments)
    /\ JsonIds(initialLevelJson) = SeqToSet(AssignmentOrder)
    /\ \A i \in 1..Len(initialLevelJson.worms) :
         \E j \in 1..Len(assignments) :
            /\ assignments[j].id = initialLevelJson.worms[i].id
            /\ assignments[j].dir = initialLevelJson.worms[i].dir
            /\ Len(initialLevelJson.worms[i].cells) >= MinLength
    /\ \A i \in 1..Len(logicGrid.worms) :
         \E j \in 1..Len(initialLevelJson.worms) :
            WormToJson(logicGrid.worms[i]) = initialLevelJson.worms[j]

\* C14: once generateLevel has returned true, no tryRemoveWorm call, successful
\* or not, changes what exportLevel returns, and that value is the full level
\* as generated, not the current board.
C14_SnapshotImmutable ==
    /\ [](pc = "idle" /\ initialLevelJson # EmptyString => FullInitialLevel)
    /\ [][\A id \in CallIds : TryRemoveWorm(id) => ExportLevel' = ExportLevel]_vars

\* every worm of a generated level of two worms has been removed, and the
\* snapshot still holds the two
C14_Witness ==
    /\ pc = "idle"
    /\ op.name = "tryRemoveWorm"
    /\ ret
    /\ Cleared(logicGrid)
    /\ initialLevelJson # EmptyString
    /\ Len(initialLevelJson.worms) = 2

\* C15 as stated: when generateLevel returns false, the live grid holds no
\* worm of a failed or rejected attempt and still corresponds to the snapshot
\* (here the first call on a new manager: the grid it was constructed with,
\* empty, and the empty snapshot).
C15_FailedGenerationKeepsGrid ==
    Returned(FALSE) =>
        /\ logicGrid = NewLogicalGrid(gridWidth, gridHeight)
        /\ initialLevelJson = EmptyString

\* generateLevel has returned false, the snapshot is still the empty one, and
\* the live grid holds a worm of the last, rejected attempt
C15_Witness ==
    /\ Returned(FALSE)
    /\ initialLevelJson = EmptyString
    /\ Len(logicGrid.worms) >= 1
    /\ Occupied(logicGrid) >= MinLength

\* the level of the example: a 1 x 2 grid and one worm on both cells, its
\* head on the top cell
ExampleLevel(lg) ==
    /\ lg.width = 1 /\ lg.height = 2
    /\ Len(lg.worms) = 1
    /\ lg.worms[1].cells = << Point(0, 0), Point(0, 1) >>

\* the worm of the example in the orientation Phase 2 tests
ExampleOriented(lg, reverse) ==
    IF reverse THEN [lg.worms[1] EXCEPT !.cells = Reverse(lg.worms[1].cells)]
    ELSE lg.worms[1]

\* C16 as stated: on the level of the example the Phase 2 tests accept
\* direction UP with the head on the top cell and no other direction or
\* orientation.
C16_OnlyUpAccepted ==
    ExampleLevel(logicGrid) =>
        \A dir \in Direction, reverse \in BOOLEAN :
            PeelAccepts(logicGrid, ExampleOriented(logicGrid, reverse), dir,
                        WormIds(logicGrid))
              <=> (dir = UP /\ ~reverse)

\* C16 amended: on the level of the example the Phase 2 tests accept every
\* direction but the one that points from the head to the worm's other cell:
\* UP, LEFT and RIGHT with the head on the top cell (DOWN is self-blocked),
\* DOWN, LEFT and RIGHT with the head on the bottom cell; and with an accepted
\* direction of the head on the top cell tryRemoveWorm returns true and leaves
\* the grid empty.
C16_ExampleAssignments ==
    /\ [](ExampleLevel(logicGrid) =>
            \A dir \in Direction, reverse \in BOOLEAN :
                PeelAccepts(logicGrid, ExampleOriented(logicGrid, reverse), dir,
                            WormIds(logicGrid))
                  <=> dir # (IF reverse THEN UP ELSE DOWN))
    /\ [][/\ ExampleLevel(logicGrid)
          /\ logicGrid.worms[1].direction # DOWN
          /\ TryRemoveWorm(logicGrid.worms[1].id)
          => ret' /\ Cleared(logicGrid')]_vars

\* the example with direction UP has been imported and its worm removed
C16_Witness ==
    /\ op.name = "tryRemoveWorm"
    /\ ret
    /\ Cleared(logicGrid)
    /\ gridWidth = 1 /\ gridHeight = 2
    /\ initialLevelJson.kind = "object"
    /\ Len(initialLevelJson.worms) = 1
    /\ initialLevelJson.worms[1].cells = << Point(0, 0), Point(0, 1) >>
    /\ initialLevelJson.worms[1].dir = UP

\* no worm of rem can leave: from either end of each, the ray in every
\* direction holds a cell of a worm of rem (its own cells included)
Stuck(lg, rem) ==
    \A id \in rem :
        LET w == GetWorm(lg, id)
        IN \A e \in { w.cells[1], w.cells[Len(w.cells)] }, d \in Direction :
             \E q \in RayCells(lg, e, d) : lg.grid[q] \in rem

\* C17: generateLevel returns false only when the retry counter has reached
\* maxRetries; the counter starts at 0 and advances only by one, at the end
\* of an attempt that failed Phase 2 or fell short of minWormCount; and the
\* first attempt that is fully assigned and meets the minimum makes the call
\* return true at once.
C17_RetryUntilExhausted ==
    /\ [][pc = "idle" /\ pc' # "idle" => retry' = 0]_vars
    /\ [][pc # "idle" /\ pc' = "idle" /\ ~ret'
            => pc = "retry" /\ retry = MaxRetries]_vars
    /\ [][pc # "idle" /\ pc' # "idle" /\ retry' # retry
            => /\ retry' = retry + 1
               /\ pc' = "retry"
               /\ \/ /\ pc = "assigned"
                     /\ minWormCount > 0
                     /\ Len(logicGrid.worms) < minWormCount
                  \/ /\ pc = "restore"
                     /\ remaining # << >>
                     /\ Stuck(logicGrid, SeqToSet(remaining))]_vars
    /\ [][/\ pc = "assigned"
          /\ ~(minWormCount > 0 /\ Len(logicGrid.worms) < minWormCount)
          => pc' = "idle" /\ ret']_vars

\* generateLevel(0.95, 0) has returned false: every attempt failed Phase 2
C17_Witness ==
    /\ Returned(FALSE)
    /\ op.args[2] = 0
    /\ Len(logicGrid.worms) = 2
    /\ Stuck(logicGrid, WormIds(logicGrid))

\* C18: outside the grid getWormIdAt returns -1 while isEmpty and isValid
\* return false; inside the grid isValid returns true and isEmpty(x, y) holds
\* exactly when getWormIdAt(x, y) = -1.
C18_BoundaryQueries ==
    \A px \in -1..gridWidth, py \in -1..gridHeight :
        IF Point(px, py) \in GridCells(logicGrid)
        THEN /\ IsValid(logicGrid, px, py)
             /\ IsEmpty(logicGrid, px, py)
                  <=> GetWormIdAt(logicGrid, px, py) = -1
        ELSE /\ GetWormIdAt(logicGrid, px, py) = -1
             /\ ~IsEmpty(logicGrid, px, py)
             /\ ~IsValid(logicGrid, px, py)

\* Phase 1 has placed a worm on a grid that still has empty cells
C18_Witness ==
    /\ pc = "fill"
    /\ \E p, q \in GridCells(logicGrid) :
         /\ GetWormIdAt(logicGrid, p.x, p.y) = -1
         /\ GetWormIdAt(logicGrid, q.x, q.y) # -1
         /\ ~IsEmpty(logicGrid, q.x, q.y)

\* C19: removeWorm(id) on a present id empties exactly the cells of that worm
\* and deletes exactly that worm, every other cell and worm unchanged;
\* removeWorm on an absent id changes nothing.
C19_RemoveWormFrame ==
    [][\A id \in BoardIds :
         op'.name = "removeWorm" /\ op'.args[1] = id
            => /\ IF HasWorm(logicGrid, id)
                  THEN Removed(logicGrid, logicGrid', id)
                  ELSE logicGrid' = logicGrid
               /\ gridWidth' = gridWidth /\ gridHeight' = gridHeight]_vars

\* removeWorm has removed one worm of an imported level of two worms; the
\* other is on the board
C19_Witness ==
    /\ op.name = "removeWorm"
    /\ Playable(logicGrid)
    /\ Len(logicGrid.worms) = 1
    /\ ~HasWorm(logicGrid, op.args[1])
    /\ initialLevelJson.kind = "object"
    /\ op.args[1] \in JsonIds(initialLevelJson)
    /\ Occupied(logicGrid) = 1

\* C20: whenever Phase 2 records an assignment {id, dir, reverse}, no cell of
\* the ray from the head of the tested orientation in dir belongs to a worm
\* that is in remaining at that moment, the worm itself included; cells of
\* worms assigned before are crossed freely.
C20_PeelStep ==
    [][Len(assignments') = Len(assignments) + 1 =>
         LET a == assignments'[Len(assignments')]
             head == IF a.reverse THEN scan.originalCells[Len(scan.originalCells)]
                     ELSE scan.originalCells[1]
         IN /\ a.id \in SeqToSet(remaining)
            /\ \A q \in RayCells(logicGrid, head, a.dir) :
                 logicGrid.grid[q] \notin SeqToSet(remaining)]_vars

\* Phase 2 has recorded an assignment whose ray crosses a cell of a worm
\* assigned before
C20_Witness ==
    /\ pc = "restore"
    /\ scan.foundFree
    /\ LET a == assignments[Len(assignments)]
       IN \E q \in RayCells(logicGrid, GetWorm(logicGrid, a.id).cells[1], a.dir) :
            /\ logicGrid.grid[q] # EMPTY
            /\ logicGrid.grid[q] # a.id
            /\ logicGrid.grid[q] \notin SeqToSet(remaining)

\* C21: play cannot get stuck.  Whenever the manager is idle on a board that
\* descends from a level generateLevel returned true on (by any tryRemoveWorm
\* calls, successful or not, and by restoring the snapshot) and the board
\* still holds a worm, tryRemoveWorm would succeed on some worm of it.
C21_NoDeadlockInPlay ==
    pc = "idle" /\ initialLevelJson # EmptyString /\ logicGrid.worms # << >>
        => \E id \in WormIds(logicGrid) : CanRemove(logicGrid, id)

\* tryRemoveWorm has removed one worm of a generated level of two, and the
\* worm that is left, whose ray crosses the cells the removed worm had, was
\* obstructed until then
C21_Witness ==
    /\ pc = "idle"
    /\ op.name = "tryRemoveWorm"
    /\ ret
    /\ initialLevelJson # EmptyString
    /\ Len(initialLevelJson.worms) = 2
    /\ Len(logicGrid.worms) = 1
    /\ LET w == logicGrid.worms[1]
       IN /\ CanRemove(logicGrid, w.id)
          /\ \E q \in RayCells(logicGrid, w.cells[1], w.direction),
                i \in 1..2 :
               /\ initialLevelJson.worms[i].id = op.args[1]
               /\ q \in SeqToSet(initialLevelJson.worms[i].cells)

\* worm id can leave past the worms of S: from one of its two ends, in some
\* direction, the ray holds no cell of a worm of S, the worm itself included
FreeIn(lg, id, S) ==
    LET w == GetWorm(lg, id)
    IN \E e \in { w.cells[1], w.cells[Len(w.cells)] }, d \in Direction :
         \A q \in RayCells(lg, e, d) : lg.grid[q] \notin S

\* the worms left of S when the worms that can leave are taken away, all at
\* once, for as long as there is one: a function of the layout alone
RECURSIVE PeelRest(_, _)
PeelRest(lg, S) ==
    LET F == { id \in S : FreeIn(lg, id, S) }
    IN IF F = {} THEN S ELSE PeelRest(lg, S \ F)

Peelable(lg) == PeelRest(lg, WormIds(lg)) = {}

\* C22: whether Phase 2 assigns every worm or fails is decided by the layout
\* of Phase 1 alone: it reaches the application of its assignments only on a
\* layout that can be peeled to nothing and it fails only on a layout that
\* cannot, whatever the order of the ids in remaining and whatever the
\* shuffles of the directions.
C22_OutcomeDecidedByLayout ==
    /\ [][pc = "round" /\ pc' = "apply" => Peelable(logicGrid)]_vars
    /\ [][pc = "restore" /\ pc' = "retry" => ~Peelable(logicGrid)]_vars

\* Phase 2 has assigned both worms of a layout whose first worm, in the order
\* of remaining, could not leave before the second was assigned
C22_Witness ==
    /\ pc = "apply"
    /\ Len(logicGrid.worms) = 2
    /\ Len(assignments) = 2
    /\ assignments[1].id = logicGrid.worms[2].id
    /\ ~FreeIn(logicGrid, logicGrid.worms[1].id, WormIds(logicGrid))

\* C23: Phase 2 returns false only at the end of a round in which remaining
\* is not empty and no worm of it has an end and a direction whose ray is
\* clear of the worms of remaining (itself included); while remaining is in
\* that state no assignment is recorded; Phase 2 goes on to apply its
\* assignments only when remaining is empty, and then the assignments name
\* every worm of the grid exactly once.
C23_PhaseTwoOutcome ==
    /\ [][pc = "restore" /\ pc' = "retry"
            => /\ remaining # << >>
               /\ Stuck(logicGrid, SeqToSet(remaining))]_vars
    /\ [][(/\ pc \in { "round", "orient", "restore" }
           /\ remaining # << >>
           /\ Stuck(logicGrid, SeqToSet(remaining)))
            => /\ Len(assignments') <= Len(assignments)
               /\ pc' \in { "orient", "restore", "retry" }]_vars
    /\ [][pc = "round" /\ pc' = "apply" => remaining = << >>]_vars
    /\ [](pc \in { "apply", "assigned" }
            => /\ remaining = << >>
               /\ Len(assignments) = Len(logicGrid.worms)
               /\ \A id \in WormIds(logicGrid) :
                    Cardinality({ i \in 1..Len(assignments) :
                                    assignments[i].id = id }) = 1)

\* after an attempt on which Phase 2 returned false, Phase 2 has returned
\* true on the next attempt, with two worms assigned
C23_Witness ==
    /\ pc = "assigned"
    /\ retry = 1
    /\ minWormCount = 0
    /\ Len(assignments) = 2
    /\ remaining = << >>

\* the worms of the live grid without their directions, the worm under test
\* with the cells it had before its trial orientations
Settled ==
    [i \in 1..Len(logicGrid.worms) |->
        LET w == logicGrid.worms[i]
        IN [id |-> w.id, color |-> w.color,
            cells |-> IF pc \in { "orient", "restore" } /\ w.id = ScanId
                      THEN scan.originalCells ELSE w.cells]]

\* the assignment recorded for worm id
AssignmentOf(id) ==
    assignments[CHOOSE i \in 1..Len(assignments) : assignments[i].id = id]

\* C24: Phase 2 leaves the occupancy table, the dimensions and the ids of
\* the worms as Phase 1 made them; until its assignments are applied, and
\* when it returns false, every worm has the cell sequence of Phase 1, a
\* trial orientation being taken back before the next worm is tested; and
\* the application reverses the cells of exactly the worms whose recorded
\* assignment has reverse set.
C24_PhaseTwoFrame ==
    /\ [][(pc \in { "peel", "round", "orient", "restore", "apply" })
            => /\ logicGrid'.grid = logicGrid.grid
               /\ logicGrid'.width = logicGrid.width
               /\ logicGrid'.height = logicGrid.height
               /\ KeySeq(logicGrid'.worms) = KeySeq(logicGrid.worms)]_vars
    /\ [][(pc \in { "peel", "round", "orient", "restore" })
            => Settled' = Settled]_vars
    /\ [][pc = "apply"
            => \A i \in 1..Len(logicGrid.worms) :
                 LET w == logicGrid.worms[i]
                 IN logicGrid'.worms[i].cells =
                        IF AssignmentOf(w.id).reverse THEN Reverse(w.cells)
                        ELSE w.cells]_vars

\* Phase 2 has returned true on Spiral2 and Hook1: Spiral2, tested first in
\* both orientations and rejected, has its Phase 1 cells, and Hook1, assigned
\* first with reverse set, has them reversed
C24_Witness ==
    /\ pc = "assigned"
    /\ Len(logicGrid.worms) = 2
    /\ logicGrid.worms[1].cells = Spiral2
    /\ logicGrid.worms[2].cells = Reverse(Hook1)
    /\ assignments[1].id = logicGrid.worms[2].id
    /\ assignments[1].reverse
    /\ ~assignments[2].reverse

\* cs is the body of a worm on the grid of lg: 5 to 8 cells of the grid,
\* pairwise distinct, each one unit step along one axis from the cell before
WormShape(lg, cs) ==
    /\ Len(cs) \in MinLength..MaxLength
    /\ \A i \in 1..Len(cs) : cs[i] \in GridCells(lg)
    /\ \A i, j \in 1..Len(cs) : cs[i] = cs[j] => i = j
    /\ \A i \in 1..(Len(cs) - 1) :
         \/ cs[i + 1].x = cs[i].x /\ cs[i + 1].y - cs[i].y \in { -1, 1 }
         \/ cs[i + 1].y = cs[i].y /\ cs[i + 1].x - cs[i].x \in { -1, 1 }

\* C25: a turn of Phase 1 either adds one worm, of 5 to 8 distinct cells of
\* the grid that form a chain of unit steps and were all empty before the
\* turn, or leaves the grid unchanged, which is what a candidate shorter
\* than 5 cells does; so every worm on the grid has that shape.
C25_WormShape ==
    /\ [][pc = "fill"
            => \/ logicGrid' = logicGrid
               \/ /\ Len(logicGrid'.worms) = Len(logicGrid.worms) + 1
                  /\ LET w == logicGrid'.worms[Len(logicGrid'.worms)]
                     IN /\ WormShape(logicGrid, w.cells)
                        /\ \A p \in SeqToSet(w.cells) :
                             logicGrid.grid[p] = EMPTY
                        /\ logicGrid' = AddWorm(logicGrid, w)]_vars
    /\ [](\A i \in 1..Len(logicGrid.worms) :
             WormShape(logicGrid, logicGrid.worms[i].cells))

\* Phase 1 has made three candidates on the 3 x 3 grid: the first was placed
\* and the next two, cut short by it, were discarded
C25_Witness ==
    /\ pc = "fill"
    /\ gridWidth = 3
    /\ nextId = 3
    /\ Len(logicGrid.worms) = 1
    /\ logicGrid.worms[1].id = 0
    /\ Occupied(logicGrid) = Len(logicGrid.worms[1].cells)
    /\ Occupied(logicGrid) < 9

\* C26: a turn of Phase 1 that finds the occupied fraction at or above
\* targetDensity, or no empty cell, places nothing, creates no candidate and
\* hands over to Phase 2; within an attempt every candidate is created by a
\* turn of Phase 1, one per turn, the turns number at most the attempt cap,
\* and after the cap is reached the next turn hands over to Phase 2; and
\* the occupancy changes only in Phase 1 and at the reset of a retry.
C26_PhaseOneStops ==
    /\ [][(/\ pc = "fill"
           /\ \/ Occupied(logicGrid) * 100
                   >= targetDensity * gridWidth * gridHeight
              \/ Occupied(logicGrid) = gridWidth * gridHeight)
            => /\ logicGrid' = logicGrid
               /\ nextId' = nextId
               /\ pc' = "peel"]_vars
    /\ [][(pc = "fill" /\ fillAttempts >= FillCap)
            => /\ logicGrid' = logicGrid
               /\ nextId' = nextId
               /\ pc' = "peel"]_vars
    /\ [][(pc # "idle" /\ pc' # "idle" /\ pc # "retry" /\ nextId' # nextId)
            => /\ pc = "fill"
               /\ nextId' = nextId + 1
               /\ fillAttempts' = fillAttempts + 1]_vars
    /\ [][(pc # "idle" /\ logicGrid'.grid # logicGrid.grid)
            => pc \in { "fill", "retry" }]_vars
    /\ [](pc # "idle" => nextId <= fillAttempts /\ fillAttempts <= FillCap)

\* Phase 1 has stopped at targetDensity 0.5 with one 8-cell worm on the
\* 4 x 4 grid, half of the cells empty and the cap not reached
C26_Witness ==
    /\ pc = "peel"
    /\ targetDensity = 50
    /\ Len(logicGrid.worms) = 1
    /\ Occupied(logicGrid) = 8
    /\ nextId = 1
    /\ fillAttempts = 2
    /\ fillAttempts < FillCap

\* C27: every attempt of generateLevel starts from the retry loop, on a live
\* grid that was just made anew: its dimensions are the current gridWidth
\* and gridHeight, it has no worm and every cell of it is empty, and the id
\* counter and the fill counter are 0; Phase 2 starts from the worms of that
\* attempt alone; so a level that is returned has the current dimensions
\* and holds no more worms than one attempt has turns.
C27_FreshGridEveryRetry ==
    /\ [][(pc = "retry" /\ pc' # "idle")
            => /\ pc' = "fill"
               /\ logicGrid'.worms = << >>
               /\ logicGrid'.width = gridWidth
               /\ logicGrid'.height = gridHeight
               /\ DOMAIN logicGrid'.grid = Cells(gridWidth, gridHeight)
               /\ \A p \in DOMAIN logicGrid'.grid : logicGrid'.grid[p] = EMPTY
               /\ nextId' = 0
               /\ fillAttempts' = 0]_vars
    /\ [][(pc # "fill" /\ pc' = "fill") => pc = "retry"]_vars
    /\ [][(pc # "retry" /\ pc' = "retry")
            => \/ pc = "idle" /\ retry' = 0
               \/ pc \in { "restore", "assigned" } /\ retry' = retry + 1]_vars
    /\ [][pc = "peel"
            => /\ assignments' = << >>
               /\ remaining' = KeySeq(logicGrid.worms)]_vars
    /\ [](pc \notin { "idle", "retry" }
            => /\ logicGrid.width = gridWidth
               /\ logicGrid.height = gridHeight
               /\ Len(logicGrid.worms) <= nextId
               /\ \A id \in WormIds(logicGrid) : id < nextId)
    /\ [](Returned(TRUE)
            => /\ logicGrid.width = gridWidth
               /\ logicGrid.height = gridHeight
               /\ Len(logicGrid.worms) <= FillCap)

\* the second attempt of a second call starts: the grid is new and empty,
\* the attempts before it having left worms on the live grid
C27_Witness ==
    /\ pc = "fill"
    /\ calls = 2
    /\ retry = 1
    /\ fillAttempts = 0
    /\ nextId = 0
    /\ gridWidth = 4 /\ gridHeight = 4
    /\ logicGrid = NewLogicalGrid(4, 4)

\* C28 as stated, for the ray scans: no call is ever in a ray loop that does
\* not end; the scan of tryRemoveWorm, from the head of the worm in the
\* worm's direction, leaves the grid or meets a blocker.
C28_RayScansEnd == pc # "scan"

\* a worm is on the board, imported with a dir that is none of the four
\* directions, and tryRemoveWorm was called on it
C28_Witness ==
    /\ pc = "scan"
    /\ op.name = "tryRemoveWorm"
    /\ HasWorm(logicGrid, op.args[1])
    /\ GetWorm(logicGrid, op.args[1]).direction \notin Direction
    /\ initialLevelJson = BadDirection

\* the document has two worms on one cell or a worm on a cell outside its
\* w x h grid
Defective(json) ==
    \/ \E i, j \in 1..Len(json.worms) :
         /\ i # j
         /\ SeqToSet(json.worms[i].cells) \cap SeqToSet(json.worms[j].cells) # {}
    \/ \E i \in 1..Len(json.worms) :
         ~(SeqToSet(json.worms[i].cells) \subseteq Cells(json.w, json.h))

\* every cell of every worm is a cell of the grid that maps to the worm's id
Occupancy(lg) ==
    \A i \in 1..Len(lg.worms) :
        \A p \in SeqToSet(lg.worms[i].cells) :
            p \in DOMAIN lg.grid /\ lg.grid[p] = lg.worms[i].id

\* C29 as stated: importLevel returns true only on a document in which no
\* two worms share a cell and no worm has a cell outside the w x h grid (the
\* document it returned true on is the one kept as the snapshot), and after
\* an importLevel that returned true every cell of every worm is in the
\* grid and maps to that worm.
C29_DefectiveImportRejected ==
    (op.name = "importLevel" /\ ret)
        => /\ ~ Defective(initialLevelJson)
           /\ Occupancy(logicGrid)

\* importLevel has returned true on a document with two worms on one cell:
\* both worms are on the board and the cell maps to the second
C29_Witness ==
    /\ op.name = "importLevel"
    /\ ret
    /\ initialLevelJson = Overlapping
    /\ Len(logicGrid.worms) = 2
    /\ Point(0, 0) \in SeqToSet(logicGrid.worms[1].cells)
    /\ Point(0, 0) \in SeqToSet(logicGrid.worms[2].cells)
    /\ logicGrid.grid[Point(0, 0)] = logicGrid.worms[2].id

\* the ids of s are in strictly increasing order
Increasing(s) == \A i, j \in 1..Len(s) : i < j => s[i] < s[j]

\* C30: within an attempt every turn of Phase 1 that creates a candidate
\* takes the next id, one more than the id of the candidate before it; a
\* candidate that is placed becomes the last worm of the collection under
\* that id and its cells map to it, a candidate that is discarded leaves the
\* grid as it was and its id is given to no later worm; after Phase 1 the
\* ids of the worms stay as they are; so the ids of the worms of an attempt
\* are strictly increasing in order of creation, all below the next id, and
\* the ids of a generated level are pairwise distinct.
C30_IdsNeverReused ==
    /\ [][(pc = "fill" /\ pc' = "fill" /\ fillAttempts' # fillAttempts)
            => /\ nextId' = nextId + 1
               /\ IF logicGrid' # logicGrid
                  THEN /\ KeySeq(logicGrid'.worms)
                            = Append(KeySeq(logicGrid.worms), nextId)
                       /\ \A p \in DOMAIN logicGrid.grid :
                            logicGrid'.grid[p] # logicGrid.grid[p]
                                => /\ logicGrid.grid[p] = EMPTY
                                   /\ logicGrid'.grid[p] = nextId
                  ELSE TRUE]_vars
    /\ [][(pc \notin { "idle", "retry" } /\ pc' \notin { "idle", "retry" })
            => nextId' \in { nextId, nextId + 1 }]_vars
    /\ [][(pc \notin { "idle", "retry", "fill" })
            => KeySeq(logicGrid'.worms) = KeySeq(logicGrid.worms)]_vars
    /\ [](pc \notin { "idle", "retry" }
            => /\ Increasing(KeySeq(logicGrid.worms))
               /\ \A id \in WormIds(logicGrid) : id < nextId)
    /\ [](Returned(TRUE)
            => /\ Cardinality(WormIds(logicGrid)) = Len(logicGrid.worms)
               /\ Increasing(KeySeq(logicGrid.worms)))

\* a level is returned whose worms have the ids 0 and 2: the candidate with
\* id 1 ran into a dead end after three cells and was discarded
C30_Witness ==
    /\ Returned(TRUE)
    /\ KeySeq(logicGrid.worms) = << 0, 2 >>
    /\ logicGrid.worms[1].cells \in { Hook1, Reverse(Hook1) }
    /\ \A p \in DOMAIN logicGrid.grid : logicGrid.grid[p] # 1
    /\ logicGrid.grid[Point(2, 1)] = EMPTY

\* C34 as stated: after any sequence of pointer, touch, wheel and resize
\* events the children of the container are interactive unless a drag is in
\* progress (so whenever a drag ends, by pointer up, pointer leave or a
\* second finger, the interaction with the worms is back).
C34_InteractionOffOnlyWhileDragging ==
    zoom.interactiveChildren \/ zoom.isDragging

\* a second finger has touched down during a drag: the drag is over, the
\* cursor is still the grabbing one and the children are not interactive
C34_Witness ==
    /\ zoom.ev = "touchstart"
    /\ ~ zoom.isDragging
    /\ ~ zoom.dragCandidate
    /\ ~ zoom.interactiveChildren
    /\ zoom.cursor = "grabbing"

\* C35 as stated: a pointer move changes the position of the container only
\* while zoomLevel is above 1.0.
C35_PanOnlyWhenZoomed ==
    [][(/\ zoom'.ev = "pointermove"
        /\ << zoom'.x, zoom'.y >> # << zoom.x, zoom.y >>)
         => zoom.zoomLevel > ZoomOne]_vars

\* a pointer move of a drag has been handled at zoomLevel 1.0 and the
\* container is off the place setFitTransform and resetZoom give it
C35_Witness ==
    /\ zoom.ev = "pointermove"
    /\ zoom.zoomLevel = ZoomOne
    /\ zoom.isDragging
    /\ << zoom.x, zoom.y >> # << zoom.fitX, zoom.fitY >>
    /\ zoom.x = zoom.containerStartX + (0 - zoom.dragStartX)

\* C36: after any sequence of events zoomLevel is at least 1.0 and at most
\* maxZoom (5.0), and the scale of the container is fitScale * zoomLevel;
\* after resetZoom and after setFitTransform zoomLevel is exactly 1.0 and the
\* container is at the fit position.
C36_ZoomBounds ==
    /\ ZoomOne <= zoom.zoomLevel
    /\ zoom.zoomLevel <= maxZoom
    /\ zoom.scale = zoom.fitScale * zoom.zoomLevel
    /\ zoom.ev \in { "resetZoom", "setFitTransform" }
         => /\ zoom.zoomLevel = ZoomOne
            /\ zoom.x = zoom.fitX /\ zoom.y = zoom.fitY

\* a pinch that spreads the fingers to five times their distance has left
\* zoomLevel at maxZoom, on a container that a drag has moved
C36_Witness ==
    /\ zoom.ev = "touchmove"
    /\ zoom.zoomLevel = maxZoom
    /\ zoom.lastTouchDist = 50
    /\ zoom.x # zoom.fitX

(***************************************************************************)
(* C31: every worm that tryRemoveWorm removes through handleWormClick or   *)
(* autoDebugStep eventually has its view deleted from wormViews, whatever  *)
(* animation the view was playing, so that the win branch is reached once  *)
(* the last worm is removed.  Only the completion of the fly-out deletes a *)
(* view, and nothing starts the fly-out of a view whose worm is gone, so   *)
(* the claim needs: a view that wormViews lists and whose worm has left    *)
(* the logical grid has its fly-out running.                               *)
(***************************************************************************)
C31_RemovedWormViewLeaves ==
    \A i \in 1..Len(app.wormViews) :
        LET v == app.wormViews[i]
        IN ~HasWorm(logicGrid, v.worm.id)
              => [view |-> v, kind |-> "fly"] \in app.moving

\* tryRemoveWorm has removed the worm of a view that was shaking: the last
\* worm of the level is gone, its view is listed and no fly-out runs
C31_Witness ==
    /\ app.report.kind = "removed"
    /\ ret
    /\ [view |-> app.report.view, kind |-> "shake"] \in app.moving
    /\ app.report.view \in SeqToSet(app.wormViews)
    /\ logicGrid.worms = << >>
    /\ app.timer
    /\ ~app.alertDue
    /\ \A m \in app.moving : m.kind # "fly"

(***************************************************************************)
(* C32: autoDebugStep takes its deadlock branch only when the logical grid *)
(* still holds worms and tryRemoveWorm can remove none of them; on a       *)
(* generated level it reports no deadlock while a worm is removable or     *)
(* after the board has been emptied.                                       *)
(***************************************************************************)
C32_DeadlockOnlyWhenStuck ==
    (app.report.kind = "deadlock" /\ app.origin = "generated")
        => /\ logicGrid.worms # << >>
           /\ \A id \in WormIds(logicGrid) : ~CanRemove(logicGrid, id)

\* the deadlock branch on a generated level whose last worm a click has
\* removed and whose view is still flying out
C32_Witness ==
    /\ app.report.kind = "deadlock"
    /\ app.origin = "generated"
    /\ logicGrid.worms = << >>
    /\ app.wormViews # << >>
    /\ \A i \in 1..Len(app.wormViews) :
          [view |-> app.wormViews[i], kind |-> "fly"] \in app.moving

(***************************************************************************)
(* C33: under any interleaving of fly-out completions with startLevel and  *)
(* importLevel, the completion callback of a view of an earlier level      *)
(* deletes no wormViews entry of the current level, and the win branch is  *)
(* taken only when the current logical grid holds no worms.                *)
(***************************************************************************)
C33_ViewsFollowLevel ==
    /\ [][(/\ app'.report.kind \in { "flown", "win" }
           /\ app'.report # app.report
           /\ app'.report.view.level < app.level)
             => app'.wormViews = app.wormViews]_vars
    /\ [](app.report.kind = "win" => logicGrid.worms = << >>)

\* the callback of a view of level 1 has run in level 2: a view of level 2
\* is in the container and not in wormViews, and its worm is in the grid
C33_Witness ==
    /\ app.report.kind \in { "flown", "win" }
    /\ app.report.view.level < app.level
    /\ \E v \in app.container :
          /\ v.level = app.level
          /\ v \notin SeqToSet(app.wormViews)
          /\ v.worm.id = app.report.view.worm.id
          /\ HasWorm(logicGrid, v.worm.id)
          /\ ~IsMoving(app, v)

====
